---- MODULE Spec2Model ----
(***************************************************************************)
(* Model of the xKS preflight checks: the data-driven validators of        *)
(* src/validation/llmd_xks_checks.py (detect_cloud, validate_instance_types,*)
(* validate_accelerators, LLMDXKSChecks) and the class-based providers of   *)
(* src/validation/cloud_providers.py (AzureProvider, GCPProvider).          *)
(*                                                                         *)
(* Text.  A Python str is a sequence of atoms.  The characters the code    *)
(* inspects ("-", "_", "/", " ", "+", digits of a resource quantity) are   *)
(* atoms of their own; a run of other characters is one atom.  Every       *)
(* string of the model has one such spelling, so str equality is sequence  *)
(* equality, "x in s" for a character x is membership among the atoms, and *)
(* split/rsplit cut at separator atoms.                                    *)
(***************************************************************************)
EXTENDS Integers, Sequences, FiniteSets, TLC

VARIABLES
    nodes,            \* the cluster's node list, as list_node().items returns it
    registry,         \* the provider registry that detection iterates
    result,           \* what the last operation returned or raised
    log,              \* records emitted through the logger at WARNING or ERROR
    listCalls,        \* listing queries (nodes, CRDs) issued by the last operation
    pc,               \* position of the process in main()
    cloud_provider,   \* LLMDXKSChecks.cloud_provider
    provider_config,  \* LLMDXKSChecks.provider_config; the config argument of the
                      \* generic validators
    suite,            \* LLMDXKSChecks.suite
    tests,            \* LLMDXKSChecks.tests: per check, its stored result
    queue,            \* checks of the current run() still to execute
    calls,            \* check functions executed so far, in order
    crds,             \* names of the CRDs installed in the cluster
    crds_cache,       \* LLMDXKSChecks.crds_cache
    exit_status       \* status the process exited with

vars == <<nodes, registry, result, log, listCalls, pc, cloud_provider,
          provider_config, suite, tests, queue, calls, crds, crds_cache,
          exit_status>>

----------------------------------------------------------------------------
(* Bounds *)

MaxNodes == 2

----------------------------------------------------------------------------
(* Text helpers *)

Range(s) == {s[i] : i \in 1..Len(s)}

MinOf(S) == CHOOSE x \in S : \A y \in S : x <= y

MaxOf(S) == CHOOSE x \in S : \A y \in S : x >= y

\* "sub in t" for strings
Contains(t, sub) ==
    \E i \in 0..(Len(t) - Len(sub)) : SubSeq(t, i + 1, i + Len(sub)) = sub

\* sep.join(parts)
RECURSIVE Join(_, _)
Join(parts, sep) ==
    IF parts = <<>> THEN <<>>
    ELSE IF Len(parts) = 1 THEN parts[1]
    ELSE parts[1] \o sep \o Join(Tail(parts), sep)

\* t.split(sep)[0]
SplitFirst(t, sep) ==
    LET idx == {i \in 1..Len(t) : t[i] = sep}
    IN  IF idx = {} THEN t ELSE SubSeq(t, 1, MinOf(idx) - 1)

\* t.rsplit(sep, 1)[-1]
RSplitLast(t, sep) ==
    LET idx == {i \in 1..Len(t) : t[i] = sep}
    IN  IF idx = {} THEN t ELSE SubSeq(t, MaxOf(idx) + 1, Len(t))

\* repr() of a list of str, as an f-string interpolates it
RECURSIVE Quoted(_)
Quoted(items) ==
    IF items = <<>> THEN <<>>
    ELSE <<(<<"'">> \o items[1] \o <<"'">>)>> \o Quoted(Tail(items))

ListRepr(items) == <<"[">> \o Join(Quoted(items), <<", ">>) \o <<"]">>

Digits == <<"0", "1", "2", "3", "4", "5", "6", "7", "8", "9">>

IsDigit(c) == c \in Range(Digits)

DigitVal(c) == (CHOOSE i \in 1..10 : Digits[i] = c) - 1

\* str.strip() of blanks
RECURSIVE LStrip(_)
LStrip(t) == IF t # <<>> /\ t[1] = " " THEN LStrip(Tail(t)) ELSE t

RECURSIVE RStrip(_)
RStrip(t) ==
    IF t # <<>> /\ t[Len(t)] = " " THEN RStrip(SubSeq(t, 1, Len(t) - 1)) ELSE t

RECURSIVE DigitsValue(_, _)
DigitsValue(t, acc) ==
    IF t = <<>> THEN acc
    ELSE IF t[1] = "_" THEN DigitsValue(Tail(t), acc)
    ELSE DigitsValue(Tail(t), 10 * acc + DigitVal(t[1]))

\* int(s) for a str: blanks stripped, an optional sign, decimal digits with
\* single underscores between them; anything else raises ValueError.
IntParse(s) ==
    LET t == RStrip(LStrip(s))
        signed == t # <<>> /\ t[1] \in {"+", "-"}
        body == IF signed THEN Tail(t) ELSE t
        wellFormed ==
            /\ body # <<>>
            /\ \A i \in 1..Len(body) :
                  \/ IsDigit(body[i])
                  \/ /\ body[i] = "_"
                     /\ 1 < i /\ i < Len(body)
                     /\ IsDigit(body[i - 1]) /\ IsDigit(body[i + 1])
        magnitude == DigitsValue(body, 0)
    IN  IF ~wellFormed THEN [ok |-> FALSE, val |-> 0]
        ELSE [ok |-> TRUE,
              val |-> IF signed /\ t[1] = "-" THEN 0 - magnitude ELSE magnitude]

\* str(n) for an int
RECURSIVE NatText(_)
NatText(n) ==
    IF n < 10 THEN <<Digits[n + 1]>>
    ELSE NatText(n \div 10) \o <<Digits[(n % 10) + 1]>>

IntText(n) == IF n < 0 THEN <<"-">> \o NatText(0 - n) ELSE NatText(n)

----------------------------------------------------------------------------
(* dict helpers *)

NoneValue == [t \in {<<"NoneType">>} |-> <<>>]

EmptyDict == [k \in {} |-> <<>>]

\* "m or {}"
OrEmpty(m) == IF m = NoneValue THEN EmptyDict ELSE m

\* m.get(k, default)
Get(m, k, default) == IF k \in DOMAIN m THEN m[k] ELSE default

\* "m.get(k) or other": a missing key gives None, and None and "" are falsy
GetOr(m, k, other) == IF k \in DOMAIN m /\ m[k] # <<>> THEN m[k] ELSE other

----------------------------------------------------------------------------
(* Label and resource keys *)

INSTANCE_TYPE_LABEL == <<"node.kubernetes.io", "/", "instance-type">>

BETA_INSTANCE_TYPE_LABEL == <<"beta.kubernetes.io", "/", "instance-type">>

AZURE_CLUSTER_LABEL == <<"kubernetes.azure.com", "/", "cluster">>

GPU_PRESENT_LABEL == <<"nvidia.com", "/", "gpu.present">>

NVIDIA_GPU_RESOURCE == <<"nvidia.com", "/", "gpu">>

GKE_NODEPOOL_LABEL == <<"cloud.google.com", "/", "gke-nodepool">>

GKE_OS_LABEL == <<"cloud.google.com", "/", "gke-os-distribution">>

GKE_ACCELERATOR_LABEL == <<"cloud.google.com", "/", "gke-accelerator">>

GKE_TPU_ACCELERATOR_LABEL == <<"cloud.google.com", "/", "gke-tpu-accelerator">>

GKE_TPU_TOPOLOGY_LABEL == <<"cloud.google.com", "/", "gke-tpu-topology">>

GOOGLE_TPU_RESOURCE == <<"google.com", "/", "tpu">>

----------------------------------------------------------------------------
(* Provider configuration *)

SUPPORTED_INSTANCES ==
    << <<"Standard", "_", "NC24ads", "_", "A100", "_", "v4">>,
       <<"Standard", "_", "ND96asr", "_", "v4">>,
       <<"Standard", "_", "ND96amsr", "_", "A100", "_", "v4">>,
       <<"Standard", "_", "ND96isr", "_", "H100", "_", "v5">>,
       <<"Standard", "_", "ND96isr", "_", "H200", "_", "v5">> >>

AzureConfig ==
    [detect_labels |-> <<AZURE_CLUSTER_LABEL>>,
     instance_families |-> SUPPORTED_INSTANCES,
     accelerators |->
        << [name |-> <<"GPU">>,
            type_label |-> GPU_PRESENT_LABEL,
            resource_key |-> NVIDIA_GPU_RESOURCE,
            extra_labels |-> <<>>] >>]

\* The module-level registry, in declaration (dict insertion) order.
CLOUD_PROVIDERS == << [name |-> "azure", config |-> AzureConfig] >>

TPU_MACHINE_FAMILIES == << <<"ct6e">>, <<"ct5e">>, <<"ct5p">> >>

GPU_MACHINE_FAMILIES == << <<"n1">>, <<"a2">>, <<"g2">>, <<"a3">> >>

\* GCPProvider's label vocabulary written as a CloudProviderConfig: an input
\* of the generic validators whose families carry no "_".
GCPConfig ==
    [detect_labels |-> <<GKE_NODEPOOL_LABEL, GKE_OS_LABEL>>,
     instance_families |-> TPU_MACHINE_FAMILIES \o GPU_MACHINE_FAMILIES,
     accelerators |->
        << [name |-> <<"GPU">>,
            type_label |-> GKE_ACCELERATOR_LABEL,
            resource_key |-> NVIDIA_GPU_RESOURCE,
            extra_labels |-> <<>>],
           [name |-> <<"TPU">>,
            type_label |-> GKE_TPU_ACCELERATOR_LABEL,
            resource_key |-> GOOGLE_TPU_RESOURCE,
            extra_labels |-> <<GKE_TPU_TOPOLOGY_LABEL>>] >>]

\* A family list that mixes both naming conventions.
MixedConfig ==
    [detect_labels |-> <<AZURE_CLUSTER_LABEL>>,
     instance_families |-> << <<"n1">>, SUPPORTED_INSTANCES[2] >>,
     accelerators |-> AzureConfig.accelerators]

----------------------------------------------------------------------------
(* Generic validation functions *)

Labels(node) == OrEmpty(node.labels)

Allocatable(node) == OrEmpty(node.allocatable)

\* What a call hands back: a value, or the exception that escaped it.
\* warnings: what it logged at WARNING or ERROR; queries: its list_node() calls.
Returned(v) ==
    [status |-> "returned", value |-> v, error |-> "", warnings |-> <<>>, queries |-> 0]

Raised(e) ==
    [status |-> "raised", value |-> <<>>, error |-> e, warnings |-> <<>>, queries |-> 0]

WithWarnings(r, w) == [r EXCEPT !.warnings = w]

\* the call issued one list_node() query before anything else
Listed(r) == [r EXCEPT !.queries = @ + 1]

\* mutant: a detect label counts only when its value is truthy
detect_cloud_truthy(ns, cfg) ==
    \E i \in 1..Len(ns) :
        \E j \in 1..Len(cfg.detect_labels) :
            Get(Labels(ns[i]), cfg.detect_labels[j], <<>>) # <<>>

\* detect_cloud(nodes, config)
detect_cloud(ns, cfg) ==
    \E i \in 1..Len(ns) :
        \E j \in 1..Len(cfg.detect_labels) :
            cfg.detect_labels[j] \in DOMAIN Labels(ns[i])

\* mutant: exact mode only when every family carries "_"
use_exact_all(families) == \A i \in 1..Len(families) : "_" \in Range(families[i])

\* use_exact = any("_" in f for f in families)
use_exact(families) == \E i \in 1..Len(families) : "_" \in Range(families[i])

\* instance_type as validate_instance_types reads it from one node
instance_type_of(node) ==
    GetOr(Labels(node), INSTANCE_TYPE_LABEL,
          Get(Labels(node), BETA_INSTANCE_TYPE_LABEL, <<>>))

\* mutant: an unmatched exact SKU falls back to prefix matching
instance_matches_fallback(instance_type, families, exact) ==
    /\ instance_type # <<>>
    /\ \/ exact /\ instance_type \in Range(families)
       \/ SplitFirst(instance_type, "-") \in Range(families)

\* the match rule of one loop iteration of validate_instance_types
instance_matches(instance_type, families, exact) ==
    IF instance_type = <<>> THEN FALSE
    ELSE IF exact THEN instance_type \in Range(families)
    ELSE SplitFirst(instance_type, "-") \in Range(families)

\* f"{instance_type} on {node.metadata.name}"
instance_entry(instance_type, name) == instance_type \o <<" on ", name>>

\* mutant: the loop stops at the first supported node
RECURSIVE instance_found_first(_, _, _, _)
instance_found_first(ns, families, exact, found) ==
    IF ns = <<>> \/ found # <<>> THEN found
    ELSE LET it == instance_type_of(ns[1])
         IN  instance_found_first(Tail(ns), families, exact,
                IF instance_matches(it, families, exact)
                THEN Append(found, instance_entry(it, ns[1].name))
                ELSE found)

\* mutant: the loop ends at the first node that is not supported
RECURSIVE instance_found_until_miss(_, _, _, _)
instance_found_until_miss(ns, families, exact, found) ==
    IF ns = <<>> THEN found
    ELSE LET it == instance_type_of(ns[1])
         IN  IF instance_matches(it, families, exact)
             THEN instance_found_until_miss(Tail(ns), families, exact,
                                            Append(found, instance_entry(it, ns[1].name)))
             ELSE found

\* the loop of validate_instance_types: the list "found"
RECURSIVE instance_found(_, _, _, _)
instance_found(ns, families, exact, found) ==
    IF ns = <<>> THEN found
    ELSE LET it == instance_type_of(ns[1])
         IN  instance_found(Tail(ns), families, exact,
                IF instance_matches(it, families, exact)
                THEN Append(found, instance_entry(it, ns[1].name))
                ELSE found)

\* validate_instance_types(nodes, config, logger)
validate_instance_types(ns, cfg) ==
    LET families == cfg.instance_families
        found == instance_found(ns, families, use_exact(families), <<>>)
    IN  IF found # <<>>
        THEN Returned([success |-> TRUE,
                       message |-> <<"Found supported instance types: ">>
                                   \o Join(found, <<", ">>)])
        ELSE Returned([success |-> FALSE,
                       message |-> <<"No supported instance types found. Expected families: ">>
                                   \o ListRepr(families)])


\* mutant: the extra labels are not read
accel_extras_none(extra_labels, labels, extras) == extras

\* the extras of one qualifying node: f"{key_short}: {val}" per non-empty extra label
RECURSIVE accel_extras(_, _, _)
accel_extras(extra_labels, labels, extras) ==
    IF extra_labels = <<>> THEN extras
    ELSE LET val == Get(labels, extra_labels[1], <<>>)
         IN  accel_extras(Tail(extra_labels), labels,
                IF val # <<>>
                THEN Append(extras, RSplitLast(extra_labels[1], "/") \o <<": ">> \o val)
                ELSE extras)

\* f"{node.metadata.name} ({detail})"
accel_entry(node, accel, type_value, count) ==
    LET extras == accel_extras(accel.extra_labels, Labels(node), <<>>)
        detail == type_value \o <<": ">> \o IntText(count)
                  \o (IF extras # <<>> THEN <<", ">> \o Join(extras, <<", ">>) ELSE <<>>)
    IN  <<node.name, " (">> \o detail \o <<")">>

accel_warning(node, accel) ==
    accel.name \o <<" accelerator present but no allocatable resources on ", node.name>>

\* does the node count toward the accelerator class (the first branch of the loop body)
accel_counts(type_value, count) == type_value # <<>> /\ count > 0

\* the inner loop of validate_accelerators over the nodes, for one accelerator:
\* the list accel_nodes, the warnings logged, and whether int() raised
RECURSIVE accel_scan(_, _, _)
accel_scan(ns, accel, acc) ==
    IF ns = <<>> THEN acc
    ELSE LET node == ns[1]
             type_value == Get(Labels(node), accel.type_label, <<>>)
             parsed == IntParse(Get(Allocatable(node), accel.resource_key, <<"0">>))
             count == parsed.val
         IN  IF ~parsed.ok THEN [acc EXCEPT !.raised = TRUE]
             ELSE accel_scan(Tail(ns), accel,
                    IF accel_counts(type_value, count)
                    THEN [acc EXCEPT !.entries =
                             Append(@, accel_entry(node, accel, type_value, count))]
                    ELSE IF type_value # <<>> /\ count = 0
                    THEN [acc EXCEPT !.warnings = Append(@, accel_warning(node, accel))]
                    ELSE acc)

\* mutant: the summary of a class is put before those of earlier classes
RECURSIVE accel_loop_prepend(_, _, _)
accel_loop_prepend(accels, ns, acc) ==
    IF accels = <<>> THEN acc
    ELSE LET scan == accel_scan(ns, accels[1],
                                [raised |-> FALSE, entries |-> <<>>,
                                 warnings |-> acc.warnings])
         IN  IF scan.raised
             THEN [acc EXCEPT !.raised = TRUE, !.warnings = scan.warnings]
             ELSE accel_loop_prepend(Tail(accels), ns,
                    [raised |-> FALSE,
                     all_found |->
                        IF scan.entries # <<>>
                        THEN << accels[1].name \o <<" available on: ">>
                                \o Join(scan.entries, <<", ">>) >> \o acc.all_found
                        ELSE acc.all_found,
                     warnings |-> scan.warnings])

\* the outer loop of validate_accelerators over config["accelerators"]
RECURSIVE accel_loop(_, _, _)
accel_loop(accels, ns, acc) ==
    IF accels = <<>> THEN acc
    ELSE LET scan == accel_scan(ns, accels[1],
                                [raised |-> FALSE, entries |-> <<>>,
                                 warnings |-> acc.warnings])
         IN  IF scan.raised
             THEN [acc EXCEPT !.raised = TRUE, !.warnings = scan.warnings]
             ELSE accel_loop(Tail(accels), ns,
                    [raised |-> FALSE,
                     all_found |->
                        IF scan.entries # <<>>
                        THEN Append(acc.all_found,
                                    accels[1].name \o <<" available on: ">>
                                    \o Join(scan.entries, <<", ">>))
                        ELSE acc.all_found,
                     warnings |-> scan.warnings])

accel_names(accels) == [i \in 1..Len(accels) |-> accels[i].name]

\* validate_accelerators(nodes, config, logger)
validate_accelerators(ns, cfg) ==
    LET loop == accel_loop(cfg.accelerators, ns,
                          [raised |-> FALSE, all_found |-> <<>>, warnings |-> <<>>])
    IN  IF loop.raised THEN WithWarnings(Raised("ValueError"), loop.warnings)
        ELSE IF loop.all_found # <<>>
        THEN WithWarnings(
                Returned([success |-> TRUE,
                          message |-> Join(loop.all_found, <<" | ">>)]),
                loop.warnings)
        ELSE WithWarnings(
                Returned([success |-> FALSE,
                          message |-> <<"No accelerators found (checked: ">>
                                      \o Join(accel_names(cfg.accelerators), <<", ">>)
                                      \o <<")">>]),
                loop.warnings)


----------------------------------------------------------------------------
(* Class-based providers (cloud_providers.py).  Each method issues its own *)
(* list_node() query; listOk says whether that query succeeds.             *)

\* AzureProvider.detect
AzureProvider_detect(ns, listOk) ==
    Listed(
    IF ~listOk
    THEN WithWarnings(Returned(FALSE), << <<"Failed to list nodes for Azure detection">> >>)
    ELSE Returned(\E i \in 1..Len(ns) : AZURE_CLUSTER_LABEL \in DOMAIN Labels(ns[i])))

\* GCPProvider.detect
GCPProvider_detect(ns, listOk) ==
    Listed(
    IF ~listOk
    THEN WithWarnings(Returned(FALSE), << <<"Failed to list nodes for GKE detection">> >>)
    ELSE Returned(\E i \in 1..Len(ns) :
                      \/ GKE_NODEPOOL_LABEL \in DOMAIN Labels(ns[i])
                      \/ GKE_OS_LABEL \in DOMAIN Labels(ns[i])))

\* instance_type as AzureProvider.validate_instance_types reads it
azure_instance_type_of(node) ==
    GetOr(Labels(node), INSTANCE_TYPE_LABEL,
          Get(Labels(node), BETA_INSTANCE_TYPE_LABEL, <<>>))

\* instance_types[vm] after the loop
azure_count(ns, vm) ==
    Cardinality({i \in 1..Len(ns) : azure_instance_type_of(ns[i]) = vm})

\* [f"{vm} ({count} nodes)" for vm, count in instance_types.items() if count > 0]
RECURSIVE azure_found_types(_, _, _)
azure_found_types(vms, ns, found_types) ==
    IF vms = <<>> THEN found_types
    ELSE LET count == azure_count(ns, vms[1])
         IN  azure_found_types(Tail(vms), ns,
                IF count > 0
                THEN Append(found_types,
                            vms[1] \o <<" (">> \o IntText(count) \o <<" nodes)">>)
                ELSE found_types)

\* AzureProvider.validate_instance_types
AzureProvider_validate_instance_types(ns, listOk) ==
    Listed(
    IF ~listOk THEN Raised("ApiException")
    ELSE LET found_types == azure_found_types(SUPPORTED_INSTANCES, ns, <<>>)
         IN  IF \A i \in 1..Len(SUPPORTED_INSTANCES) :
                    azure_count(ns, SUPPORTED_INSTANCES[i]) = 0
             THEN Returned([success |-> FALSE,
                            message |-> <<"No supported Azure instance types found. Expected: ">>
                                        \o ListRepr(SUPPORTED_INSTANCES)])
             ELSE Returned([success |-> TRUE,
                            message |-> <<"Found supported Azure instance types: ">>
                                        \o Join(found_types, <<", ">>)]))

\* the loop of AzureProvider.validate_accelerators
RECURSIVE azure_gpu_scan(_, _)
azure_gpu_scan(ns, acc) ==
    IF ns = <<>> THEN acc
    ELSE LET node == ns[1]
             gpu_count == Get(Allocatable(node), NVIDIA_GPU_RESOURCE, <<"0">>)
             parsed == IntParse(gpu_count)
         IN  IF GPU_PRESENT_LABEL \notin DOMAIN Labels(node)
             THEN azure_gpu_scan(Tail(ns), acc)
             ELSE IF ~parsed.ok THEN [acc EXCEPT !.raised = TRUE]
             ELSE azure_gpu_scan(Tail(ns),
                    IF parsed.val > 0
                    THEN [acc EXCEPT !.entries =
                             Append(@, <<node.name, " (">> \o gpu_count \o <<" GPUs)">>)]
                    ELSE [acc EXCEPT !.warnings =
                             Append(@, <<"GPU accelerator present but no drivers on ",
                                         node.name>>)])

\* AzureProvider.validate_accelerators
AzureProvider_validate_accelerators(ns, listOk) ==
    Listed(
    IF ~listOk THEN Raised("ApiException")
    ELSE LET scan == azure_gpu_scan(ns, [raised |-> FALSE, entries |-> <<>>, warnings |-> <<>>])
         IN  IF scan.raised THEN WithWarnings(Raised("ValueError"), scan.warnings)
             ELSE IF scan.entries # <<>>
             THEN WithWarnings(
                     Returned([success |-> TRUE,
                               message |-> <<"GPU", " available on: ">>
                                           \o Join(scan.entries, <<", ">>)]),
                     scan.warnings)
             ELSE WithWarnings(
                     Returned([success |-> FALSE,
                               message |-> <<"No GPUs with drivers found (checked nvidia.com/gpu resource)">>]),
                     scan.warnings))

\* machine_type as GCPProvider.validate_instance_types reads it
gcp_machine_type_of(node) == Get(Labels(node), INSTANCE_TYPE_LABEL, <<>>)

\* the loop of GCPProvider.validate_instance_types: the list valid_types
RECURSIVE gcp_valid_types(_, _, _)
gcp_valid_types(ns, all_families, valid_types) ==
    IF ns = <<>> THEN valid_types
    ELSE LET machine_type == gcp_machine_type_of(ns[1])
         IN  gcp_valid_types(Tail(ns), all_families,
                IF machine_type # <<>>
                   /\ SplitFirst(machine_type, "-") \in Range(all_families)
                THEN Append(valid_types, machine_type \o <<" on ", ns[1].name>>)
                ELSE valid_types)

\* GCPProvider.validate_instance_types
GCPProvider_validate_instance_types(ns, listOk) ==
    Listed(
    IF ~listOk THEN Raised("ApiException")
    ELSE LET all_families == TPU_MACHINE_FAMILIES \o GPU_MACHINE_FAMILIES
             valid_types == gcp_valid_types(ns, all_families, <<>>)
         IN  IF valid_types # <<>>
             THEN Returned([success |-> TRUE,
                            message |-> <<"Found supported machine types: ">>
                                        \o Join(valid_types, <<", ">>)])
             ELSE Returned([success |-> FALSE,
                            message |-> <<"No supported machine types. Expected families: ">>
                                        \o ListRepr(all_families)]))

\* the loop of GCPProvider._check_gpu
RECURSIVE gcp_gpu_scan(_, _)
gcp_gpu_scan(ns, acc) ==
    IF ns = <<>> THEN acc
    ELSE LET node == ns[1]
             gpu_type == Get(Labels(node), GKE_ACCELERATOR_LABEL, <<>>)
             gpu_count == Get(Allocatable(node), NVIDIA_GPU_RESOURCE, <<"0">>)
             parsed == IntParse(gpu_count)
         IN  IF gpu_type = <<>> THEN gcp_gpu_scan(Tail(ns), acc)
             ELSE IF ~parsed.ok THEN [acc EXCEPT !.raised = TRUE]
             ELSE gcp_gpu_scan(Tail(ns),
                    IF parsed.val > 0
                    THEN [acc EXCEPT !.entries =
                             Append(@, <<node.name, " (">> \o gpu_type \o <<": ">>
                                       \o gpu_count \o <<")">>)]
                    ELSE acc)

\* GCPProvider._check_gpu
GCPProvider_check_gpu(ns, listOk) ==
    Listed(
    IF ~listOk
    THEN WithWarnings(
            Returned([success |-> FALSE, message |-> <<"Failed to query nodes: ", "ApiException">>]),
            << <<"Failed to list nodes for GPU check: ", "ApiException">> >>)
    ELSE LET scan == gcp_gpu_scan(ns, [raised |-> FALSE, entries |-> <<>>])
         IN  IF scan.raised THEN Raised("ValueError")
             ELSE IF scan.entries # <<>>
             THEN Returned([success |-> TRUE,
                            message |-> <<"GPU", " available on: ">>
                                        \o Join(scan.entries, <<", ">>)])
             ELSE Returned([success |-> FALSE,
                            message |-> <<"No GPUs found (checked nvidia.com/gpu resource)">>]))

\* the loop of GCPProvider._check_tpu
RECURSIVE gcp_tpu_scan(_, _)
gcp_tpu_scan(ns, acc) ==
    IF ns = <<>> THEN acc
    ELSE LET node == ns[1]
             tpu_type == Get(Labels(node), GKE_TPU_ACCELERATOR_LABEL, <<>>)
             tpu_count == Get(Allocatable(node), GOOGLE_TPU_RESOURCE, <<"0">>)
             tpu_topology == Get(Labels(node), GKE_TPU_TOPOLOGY_LABEL, <<>>)
             parsed == IntParse(tpu_count)
             topology_str == IF tpu_topology # <<>>
                             THEN <<", topology: ">> \o tpu_topology ELSE <<>>
         IN  IF tpu_type = <<>> THEN gcp_tpu_scan(Tail(ns), acc)
             ELSE IF ~parsed.ok THEN [acc EXCEPT !.raised = TRUE]
             ELSE gcp_tpu_scan(Tail(ns),
                    IF parsed.val > 0
                    THEN [acc EXCEPT !.entries =
                             Append(@, <<node.name, " (">> \o tpu_type \o topology_str
                                       \o <<": ">> \o tpu_count \o <<" chips)">>)]
                    ELSE acc)

\* GCPProvider._check_tpu
GCPProvider_check_tpu(ns, listOk) ==
    Listed(
    IF ~listOk
    THEN WithWarnings(
            Returned([success |-> FALSE, message |-> <<"Failed to query nodes: ", "ApiException">>]),
            << <<"Failed to list nodes for TPU check: ", "ApiException">> >>)
    ELSE LET scan == gcp_tpu_scan(ns, [raised |-> FALSE, entries |-> <<>>])
         IN  IF scan.raised THEN Raised("ValueError")
             ELSE IF scan.entries # <<>>
             THEN Returned([success |-> TRUE,
                            message |-> <<"TPU", " available on: ">>
                                        \o Join(scan.entries, <<", ">>)])
             ELSE Returned([success |-> FALSE,
                            message |-> <<"No TPUs found (checked google.com/tpu resource)">>]))

\* GCPProvider.validate_accelerators
GCPProvider_validate_accelerators(ns, gpuListOk, tpuListOk) ==
    LET gpu_result == GCPProvider_check_gpu(ns, gpuListOk)
        tpu_result == GCPProvider_check_tpu(ns, tpuListOk)
        both(r) == [r EXCEPT !.warnings = gpu_result.warnings \o tpu_result.warnings,
                             !.queries = gpu_result.queries + tpu_result.queries]
    IN  IF gpu_result.status = "raised" THEN gpu_result
        ELSE IF tpu_result.status = "raised" THEN both(tpu_result)
        ELSE LET g == gpu_result.value
                 t == tpu_result.value
             IN  IF g.success \/ t.success
                 THEN both(Returned(
                         [success |-> TRUE,
                          message |-> Join((IF g.success THEN <<g.message>> ELSE <<>>)
                                           \o (IF t.success THEN <<t.message>> ELSE <<>>),
                                           <<" | ">>)]))
                 ELSE both(Returned(
                         [success |-> FALSE,
                          message |-> <<"No accelerators found. ", "GPU", ": ">> \o g.message
                                      \o <<", ", "TPU", ": ">> \o t.message]))

ZONE_LABEL == <<"topology.kubernetes.io", "/", "zone">>

\* GCPProvider.ZONE_DATA: class -> model -> zone -> region label
ZONE_DATA ==
    [tpu |->
        (<<"v6e">> :>
            (  <<"us", "-", "central1", "-", "b">> :> <<"US Central">> @@
               <<"us", "-", "east1", "-", "d">> :> <<"US East">> @@
               <<"us", "-", "east5", "-", "a">> :> <<"US East (Columbus)">> @@
               <<"us", "-", "east5", "-", "b">> :> <<"US East (Columbus)">> @@
               <<"us", "-", "south1", "-", "a">> :> <<"US South (Dallas)">> @@
               <<"us", "-", "south1", "-", "b">> :> <<"US South (Dallas)">> @@
               <<"europe", "-", "west4", "-", "a">> :> <<"Europe (Netherlands)">> @@
               <<"asia", "-", "northeast1", "-", "b">> :> <<"Asia (Tokyo)">> @@
               <<"southamerica", "-", "west1", "-", "a">> :> <<"South America (Santiago)">>)) @@
        (<<"v5e">> :>
            (  <<"europe", "-", "west4", "-", "b">> :> <<"Europe (Netherlands)">> @@
               <<"us", "-", "central1", "-", "a">> :> <<"US Central">> @@
               <<"us", "-", "south1", "-", "a">> :> <<"US South (Dallas)">> @@
               <<"us", "-", "west1", "-", "c">> :> <<"US West (Oregon)">> @@
               <<"us", "-", "west4", "-", "a">> :> <<"US West (Las Vegas)">>)) @@
        (<<"v5p">> :>
            (  <<"europe", "-", "west4", "-", "b">> :> <<"Europe (Netherlands)">> @@
               <<"us", "-", "central1", "-", "a">> :> <<"US Central">> @@
               <<"us", "-", "east5", "-", "a">> :> <<"US East (Columbus)">>)),
     gpu |->
        (<<"t4">> :>
            (  <<"us", "-", "central1", "-", "a">> :> <<"US Central">> @@
               <<"us", "-", "central1", "-", "b">> :> <<"US Central">> @@
               <<"us", "-", "central1", "-", "c">> :> <<"US Central">> @@
               <<"us", "-", "central1", "-", "f">> :> <<"US Central">> @@
               <<"us", "-", "east1", "-", "b">> :> <<"US East">> @@
               <<"us", "-", "east1", "-", "c">> :> <<"US East">> @@
               <<"us", "-", "east1", "-", "d">> :> <<"US East">> @@
               <<"us", "-", "east4", "-", "a">> :> <<"US East (Virginia)">> @@
               <<"us", "-", "east4", "-", "b">> :> <<"US East (Virginia)">> @@
               <<"us", "-", "east4", "-", "c">> :> <<"US East (Virginia)">> @@
               <<"us", "-", "west1", "-", "a">> :> <<"US West (Oregon)">> @@
               <<"us", "-", "west1", "-", "b">> :> <<"US West (Oregon)">> @@
               <<"us", "-", "west2", "-", "b">> :> <<"US West (Los Angeles)">> @@
               <<"us", "-", "west2", "-", "c">> :> <<"US West (Los Angeles)">> @@
               <<"us", "-", "west4", "-", "a">> :> <<"US West (Las Vegas)">> @@
               <<"us", "-", "west4", "-", "b">> :> <<"US West (Las Vegas)">> @@
               <<"europe", "-", "west1", "-", "b">> :> <<"Europe (Belgium)">> @@
               <<"europe", "-", "west1", "-", "c">> :> <<"Europe (Belgium)">> @@
               <<"europe", "-", "west4", "-", "a">> :> <<"Europe (Netherlands)">> @@
               <<"europe", "-", "west4", "-", "b">> :> <<"Europe (Netherlands)">> @@
               <<"asia", "-", "east1", "-", "a">> :> <<"Asia (Taiwan)">> @@
               <<"asia", "-", "southeast1", "-", "a">> :> <<"Asia (Singapore)">>)) @@
        (<<"a100">> :>
            (  <<"us", "-", "central1", "-", "a">> :> <<"US Central">> @@
               <<"us", "-", "central1", "-", "b">> :> <<"US Central">> @@
               <<"us", "-", "central1", "-", "c">> :> <<"US Central">> @@
               <<"us", "-", "east1", "-", "c">> :> <<"US East">> @@
               <<"us", "-", "east4", "-", "a">> :> <<"US East (Virginia)">> @@
               <<"us", "-", "east4", "-", "b">> :> <<"US East (Virginia)">> @@
               <<"us", "-", "west1", "-", "a">> :> <<"US West (Oregon)">> @@
               <<"us", "-", "west1", "-", "b">> :> <<"US West (Oregon)">> @@
               <<"europe", "-", "west4", "-", "a">> :> <<"Europe (Netherlands)">> @@
               <<"europe", "-", "west4", "-", "b">> :> <<"Europe (Netherlands)">> @@
               <<"asia", "-", "southeast1", "-", "c">> :> <<"Asia (Singapore)">> @@
               <<"asia", "-", "northeast1", "-", "a">> :> <<"Asia (Tokyo)">> @@
               <<"asia", "-", "northeast1", "-", "c">> :> <<"Asia (Tokyo)">>)) @@
        (<<"l4">> :>
            (  <<"us", "-", "central1", "-", "a">> :> <<"US Central">> @@
               <<"us", "-", "central1", "-", "b">> :> <<"US Central">> @@
               <<"us", "-", "central1", "-", "c">> :> <<"US Central">> @@
               <<"us", "-", "east1", "-", "c">> :> <<"US East">> @@
               <<"us", "-", "east4", "-", "a">> :> <<"US East (Virginia)">> @@
               <<"us", "-", "east4", "-", "b">> :> <<"US East (Virginia)">> @@
               <<"us", "-", "west1", "-", "a">> :> <<"US West (Oregon)">> @@
               <<"us", "-", "west1", "-", "b">> :> <<"US West (Oregon)">> @@
               <<"us", "-", "west4", "-", "b">> :> <<"US West (Las Vegas)">> @@
               <<"europe", "-", "west1", "-", "b">> :> <<"Europe (Belgium)">> @@
               <<"europe", "-", "west4", "-", "a">> :> <<"Europe (Netherlands)">> @@
               <<"asia", "-", "southeast1", "-", "b">> :> <<"Asia (Singapore)">> @@
               <<"asia", "-", "northeast1", "-", "b">> :> <<"Asia (Tokyo)">>)) @@
        (<<"h100">> :>
            (  <<"us", "-", "central1", "-", "a">> :> <<"US Central">> @@
               <<"us", "-", "central1", "-", "b">> :> <<"US Central">> @@
               <<"us", "-", "east4", "-", "a">> :> <<"US East (Virginia)">> @@
               <<"us", "-", "east4", "-", "c">> :> <<"US East (Virginia)">> @@
               <<"us", "-", "west1", "-", "a">> :> <<"US West (Oregon)">> @@
               <<"us", "-", "west4", "-", "b">> :> <<"US West (Las Vegas)">> @@
               <<"europe", "-", "west4", "-", "a">> :> <<"Europe (Netherlands)">> @@
               <<"asia", "-", "southeast1", "-", "c">> :> <<"Asia (Singapore)">>))]

\* t.replace(old, ""): every occurrence of old, left to right
RECURSIVE RemoveAll(_, _)
RemoveAll(t, old) ==
    IF Len(t) < Len(old) THEN t
    ELSE IF SubSeq(t, 1, Len(old)) = old
    THEN RemoveAll(SubSeq(t, Len(old) + 1, Len(t)), old)
    ELSE <<t[1]>> \o RemoveAll(Tail(t), old)

\* mutant: an identifier without a hyphen yields no model, so is never looked up
tpu_version_split_only(tpu_type) ==
    IF "-" \in Range(tpu_type) THEN SplitFirst(tpu_type, "-") ELSE <<>>

\* validate_zone_compatibility: tpu_version
tpu_version_of(tpu_type) ==
    IF "-" \in Range(tpu_type) THEN SplitFirst(tpu_type, "-") ELSE tpu_type

\* validate_zone_compatibility: gpu_short
gpu_short_of(gpu_type) ==
    RemoveAll(RemoveAll(gpu_type, <<"nvidia", "-", "tesla", "-">>), <<"nvidia", "-">>)

\* the warning appended for an accelerator outside its validated zones
zone_warning(class, accel_type, name, zone, model) ==
    <<class, " ">> \o accel_type \o <<" on ", name, " in zone ">> \o zone
    \o <<" not in validated zones for ">> \o model

\* "if valid_zones and zone not in valid_zones"
zone_rejected(valid_zones, zone) ==
    DOMAIN valid_zones # {} /\ zone \notin DOMAIN valid_zones

\* the TPU half of the loop body: warnings appended, records logged
zone_tpu_step(node, zone, acc) ==
    LET tpu_type == Get(Labels(node), GKE_TPU_ACCELERATOR_LABEL, <<>>)
    IN  IF tpu_type = <<>> \/ zone = <<>> THEN acc
        ELSE [warnings |->
                 IF zone_rejected(Get(ZONE_DATA.tpu, tpu_version_of(tpu_type), EmptyDict), zone)
                 THEN Append(acc.warnings,
                             zone_warning("TPU", tpu_type, node.name, zone,
                                          tpu_version_of(tpu_type)))
                 ELSE acc.warnings,
              logged |->
                 acc.logged
                 \o (IF "-" \in Range(tpu_type) THEN <<>>
                     ELSE << <<"Unexpected TPU type format (no hyphen): ">> \o tpu_type >>)
                 \o (IF zone_rejected(Get(ZONE_DATA.tpu, tpu_version_of(tpu_type),
                                          EmptyDict), zone)
                     THEN << zone_warning("TPU", tpu_type, node.name, zone,
                                          tpu_version_of(tpu_type)) >>
                     ELSE <<>>)]

\* the GPU half of the loop body
zone_gpu_step(node, zone, acc) ==
    LET gpu_type == Get(Labels(node), GKE_ACCELERATOR_LABEL, <<>>)
    IN  IF gpu_type = <<>> \/ zone = <<>> THEN acc
        ELSE [warnings |->
                 IF zone_rejected(Get(ZONE_DATA.gpu, gpu_short_of(gpu_type), EmptyDict), zone)
                 THEN Append(acc.warnings,
                             zone_warning("GPU", gpu_type, node.name, zone,
                                          gpu_short_of(gpu_type)))
                 ELSE acc.warnings,
              logged |->
                 acc.logged
                 \o (IF gpu_short_of(gpu_type) # gpu_type THEN <<>>
                     ELSE << <<"Unexpected GPU type format (no nvidia prefix): ">>
                             \o gpu_type >>)
                 \o (IF zone_rejected(Get(ZONE_DATA.gpu, gpu_short_of(gpu_type),
                                          EmptyDict), zone)
                     THEN << zone_warning("GPU", gpu_type, node.name, zone,
                                          gpu_short_of(gpu_type)) >>
                     ELSE <<>>)]

\* the loop of GCPProvider.validate_zone_compatibility
RECURSIVE zone_scan(_, _)
zone_scan(ns, acc) ==
    IF ns = <<>> THEN acc
    ELSE zone_scan(Tail(ns),
            zone_gpu_step(ns[1], Get(Labels(ns[1]), ZONE_LABEL, <<>>),
                zone_tpu_step(ns[1], Get(Labels(ns[1]), ZONE_LABEL, <<>>), acc)))

\* mutant: the joined warnings are the message, also when there are none
zone_result_joined(scan) ==
    WithWarnings(
        Returned([success |-> scan.warnings = <<>>,
                  message |-> Join(scan.warnings, <<"; ">>)]),
        scan.logged)

\* the return of validate_zone_compatibility
zone_result(scan) ==
    WithWarnings(
        IF scan.warnings # <<>>
        THEN Returned([success |-> FALSE, message |-> Join(scan.warnings, <<"; ">>)])
        ELSE Returned([success |-> TRUE,
                       message |-> <<"All accelerators in validated zones">>]),
        scan.logged)

\* GCPProvider.validate_zone_compatibility
GCPProvider_validate_zone_compatibility(ns, listOk) ==
    Listed(
    IF ~listOk THEN Raised("ApiException")
    ELSE zone_result(zone_scan(ns, [warnings |-> <<>>, logged |-> <<>>])))

\* GCPProvider.get_zone_data
GCPProvider_get_zone_data == ZONE_DATA

\* BaseCloudProvider.get_zone_data, which AzureProvider inherits
BaseCloudProvider_get_zone_data == EmptyDict

\* validate_zone_compatibility of an AzureProvider: neither AzureProvider nor
\* BaseCloudProvider defines the method, so the attribute lookup raises
AzureProvider_validate_zone_compatibility == Raised("AttributeError")

----------------------------------------------------------------------------
(* Provider detection *)

NotFound == "None"

\* the loop of _detect_provider over the registry, in order
RECURSIVE first_detected(_, _)
first_detected(reg, ns) ==
    IF reg = <<>> THEN NotFound
    ELSE IF detect_cloud(ns, reg[1].config) THEN reg[1].name
    ELSE first_detected(Tail(reg), ns)

\* mutant: a failed query is tried once more before giving up
detect_provider_retry(ns, listOk, reg) ==
    Listed(
    IF ~listOk
    THEN Listed(WithWarnings(Returned(NotFound),
                << <<"Failed to list nodes for provider detection: ", "ApiException">> >>))
    ELSE Returned(first_detected(reg, ns)))

\* LLMDXKSChecks._detect_provider, over the registry reg
detect_provider(ns, listOk, reg) ==
    Listed(
    IF ~listOk
    THEN WithWarnings(Returned(NotFound),
                      << <<"Failed to list nodes for provider detection: ", "ApiException">> >>)
    ELSE Returned(first_detected(reg, ns)))

----------------------------------------------------------------------------
(* Inputs: node snapshots *)

NodeNames == <<"node-1", "node-2", "node-3", "node-4">>

\* marks a key the node does not carry
Absent == <<"(absent)">>

DictOf(kv) == [k \in {x \in DOMAIN kv : kv[x] # Absent} |-> kv[k]]

\* every node list of at most MaxNodes nodes whose nodes are drawn from profiles
Snapshots(profiles) ==
    UNION { { [i \in 1..n |-> [name |-> NodeNames[i],
                               labels |-> f[i].labels,
                               allocatable |-> f[i].allocatable]] :
              f \in [1..n -> profiles] } : n \in 0..MaxNodes }

BareNode == [labels |-> NoneValue, allocatable |-> NoneValue]

N1_STANDARD_4 == <<"n1", "-", "standard", "-", "4">>

N2_STANDARD_4 == <<"n2", "-", "standard", "-", "4">>

A2_HIGHGPU_1G == <<"a2", "-", "highgpu", "-", "1g">>

SPOT_SKU == SUPPORTED_INSTANCES[2] \o <<"-", "spot">>

InstanceProfiles ==
    { [labels |-> DictOf((INSTANCE_TYPE_LABEL :> a) @@ (BETA_INSTANCE_TYPE_LABEL :> b)),
       allocatable |-> EmptyDict] :
      a \in {Absent, <<>>, SUPPORTED_INSTANCES[1], SPOT_SKU, N1_STANDARD_4, N2_STANDARD_4},
      b \in {Absent, SUPPORTED_INSTANCES[2], A2_HIGHGPU_1G} }
    \cup {BareNode}

AzureAccelProfiles ==
    { [labels |-> DictOf(GPU_PRESENT_LABEL :> a),
       allocatable |-> DictOf(NVIDIA_GPU_RESOURCE :> b)] :
      a \in {Absent, <<>>, <<"true">>},
      b \in {Absent, <<"0">>, <<"2">>, <<"abc">>, <<"-", "1">>} }

T4 == <<"nvidia", "-", "tesla", "-", "t4">>

V6E_SLICE == <<"v6e", "-", "slice">>

GCPAccelProfiles ==
    { [labels |-> DictOf(GKE_ACCELERATOR_LABEL :> T4),
       allocatable |-> DictOf(NVIDIA_GPU_RESOURCE :> b)] :
      b \in {Absent, <<"1">>, <<"x">>} }
    \cup
    { [labels |-> DictOf((GKE_TPU_ACCELERATOR_LABEL :> V6E_SLICE)
                         @@ (GKE_TPU_TOPOLOGY_LABEL :> t)),
       allocatable |-> DictOf(GOOGLE_TPU_RESOURCE :> b)] :
      t \in {Absent, <<"2x2">>}, b \in {<<"0">>, <<"4">>} }

AccelProfiles == AzureAccelProfiles \cup GCPAccelProfiles \cup {BareNode}

DetectProfiles ==
    { [labels |-> DictOf((AZURE_CLUSTER_LABEL :> a) @@ (GKE_NODEPOOL_LABEL :> b)
                         @@ (GKE_OS_LABEL :> c)),
       allocatable |-> EmptyDict] :
      a \in {Absent, <<>>, <<"cluster", "-", "1">>},
      b \in {Absent, <<"pool">>},
      c \in {Absent, <<"cos">>} }
    \cup {BareNode}

US_CENTRAL1_B == <<"us", "-", "central1", "-", "b">>

US_CENTRAL1_B_UPPER == <<"US", "-", "CENTRAL1", "-", "B">>

US_WEST99_Z == <<"us", "-", "west99", "-", "z">>

ZoneValues == {Absent, <<>>, US_CENTRAL1_B, US_CENTRAL1_B_UPPER, US_WEST99_Z}

TPU_TYPES == {V6E_SLICE, <<"v6e">>, <<"v9x", "-", "slice">>}

GPU_TYPES ==
    {T4, <<"nvidia", "-", "l4">>, <<"t4">>, <<"nvidia", "-", "nvidia", "-", "t4">>,
     <<"a100", "-", "nvidia", "-", "80gb">>}

ZoneProfiles ==
    { [labels |-> DictOf((ZONE_LABEL :> z) @@ (GKE_TPU_ACCELERATOR_LABEL :> a)),
       allocatable |-> EmptyDict] : z \in ZoneValues \ {US_CENTRAL1_B_UPPER}, a \in TPU_TYPES }
    \cup
    { [labels |-> DictOf((ZONE_LABEL :> z) @@ (GKE_ACCELERATOR_LABEL :> a)),
       allocatable |-> EmptyDict] : z \in ZoneValues \ {Absent, <<>>}, a \in GPU_TYPES }
    \cup
    { [labels |-> DictOf((ZONE_LABEL :> z) @@ (GKE_TPU_ACCELERATOR_LABEL :> V6E_SLICE)
                         @@ (GKE_ACCELERATOR_LABEL :> T4)),
       allocatable |-> EmptyDict] : z \in {US_CENTRAL1_B, US_WEST99_Z} }
    \cup
    { [labels |-> DictOf(ZONE_LABEL :> US_WEST99_Z), allocatable |-> EmptyDict],
      BareNode }

\* nodes that carry instance-type and accelerator data at once
MixedProfiles ==
    { [labels |-> DictOf((INSTANCE_TYPE_LABEL :> a) @@ (GPU_PRESENT_LABEL :> gb[1])),
       allocatable |-> DictOf(NVIDIA_GPU_RESOURCE :> gb[2])] :
      a \in {Absent, SUPPORTED_INSTANCES[2], N1_STANDARD_4},
      gb \in { <<Absent, <<"2">> >>, << <<"true">>, <<"0">> >>,
               << <<"true">>, <<"2">> >>, << <<"true">>, <<"abc">> >> } }
    \cup
    { [labels |-> DictOf((INSTANCE_TYPE_LABEL :> A2_HIGHGPU_1G) @@ (GKE_ACCELERATOR_LABEL :> T4)),
       allocatable |-> DictOf(NVIDIA_GPU_RESOURCE :> <<"1">>)],
      [labels |-> DictOf((GKE_TPU_ACCELERATOR_LABEL :> V6E_SLICE)
                         @@ (GKE_TPU_TOPOLOGY_LABEL :> <<"2x2">>)),
       allocatable |-> DictOf(GOOGLE_TPU_RESOURCE :> <<"4">>)] }

TopologyValues == {Absent, <<>>, <<"2x2">>}

\* GKE nodes with every value of the extra label cloud.google.com/gke-tpu-topology
TopologyProfiles ==
    { [labels |-> DictOf((GKE_TPU_ACCELERATOR_LABEL :> V6E_SLICE)
                         @@ (GKE_TPU_TOPOLOGY_LABEL :> t)),
       allocatable |-> DictOf(GOOGLE_TPU_RESOURCE :> b)] :
      t \in TopologyValues, b \in {<<"0">>, <<"4">>} }
    \cup
    { [labels |-> DictOf((GKE_ACCELERATOR_LABEL :> T4) @@ (GKE_TPU_TOPOLOGY_LABEL :> t)),
       allocatable |-> DictOf(NVIDIA_GPU_RESOURCE :> <<"1">>)] :
      t \in TopologyValues }
    \cup {BareNode}

GCPEntry == [name |-> "gcp", config |-> GCPConfig]

\* the shipped registry, and registries that also declare the GKE vocabulary
Registries ==
    { CLOUD_PROVIDERS, CLOUD_PROVIDERS \o <<GCPEntry>>, <<GCPEntry>> \o CLOUD_PROVIDERS }

----------------------------------------------------------------------------
(* State *)

NoResult ==
    [op |-> "none", status |-> "none", value |-> <<>>, error |-> "", listFailed |-> FALSE]

\* the outcome r of operation op, with whether a node-listing query of it failed
Outcome(op, r, listFailed) ==
    [op |-> op, status |-> r.status, value |-> r.value, error |-> r.error,
     listFailed |-> listFailed]

NoTests == <<>>

NoCache == {"(None)"}

\* the part of the state the validators called as functions leave alone
LibraryInit ==
    /\ result = NoResult
    /\ log = <<>>
    /\ listCalls = 0
    /\ pc = "library"
    /\ cloud_provider = "auto"
    /\ suite = "all"
    /\ tests = NoTests
    /\ queue = <<>>
    /\ calls = <<>>
    /\ crds = {}
    /\ crds_cache = NoCache
    /\ exit_status = -1

\* an operation called as a function: it reads the inputs, and leaves its outcome
\* mutant: the call stores the defaults it reads with ("labels or {}") in the nodes
Call_defaulting(op, r, listFailed) ==
    /\ pc = "library"
    /\ result' = Outcome(op, r, listFailed)
    /\ log' = r.warnings
    /\ listCalls' = r.queries
    /\ nodes' = [i \in 1..Len(nodes) |->
                    [nodes[i] EXCEPT !.labels = OrEmpty(@), !.allocatable = OrEmpty(@)]]
    /\ UNCHANGED <<registry, pc, cloud_provider, provider_config, suite,
                   tests, queue, calls, crds, crds_cache, exit_status>>

Call(op, r, listFailed) ==
    /\ pc = "library"
    /\ result' = Outcome(op, r, listFailed)
    /\ log' = r.warnings
    /\ listCalls' = r.queries
    /\ UNCHANGED <<nodes, registry, pc, cloud_provider, provider_config, suite,
                   tests, queue, calls, crds, crds_cache, exit_status>>

----------------------------------------------------------------------------
(* Instance-type validation, applied to every snapshot and configuration *)

InitInstance ==
    /\ nodes \in Snapshots(InstanceProfiles)
    /\ provider_config \in {AzureConfig, GCPConfig, MixedConfig}
    /\ registry = CLOUD_PROVIDERS
    /\ LibraryInit

ValidateInstanceTypes ==
    Call("validate_instance_types", validate_instance_types(nodes, provider_config), FALSE)

AzureValidateInstanceTypes ==
    \E listOk \in BOOLEAN :
        Call("AzureProvider.validate_instance_types",
             AzureProvider_validate_instance_types(nodes, listOk), ~listOk)

GCPValidateInstanceTypes ==
    \E listOk \in BOOLEAN :
        Call("GCPProvider.validate_instance_types",
             GCPProvider_validate_instance_types(nodes, listOk), ~listOk)

NextInstance ==
    \/ ValidateInstanceTypes
    \/ AzureValidateInstanceTypes
    \/ GCPValidateInstanceTypes

SpecInstance == InitInstance /\ [][NextInstance]_vars

----------------------------------------------------------------------------
(* Accelerator validation, applied to every snapshot and configuration *)

InitAccel ==
    /\ nodes \in Snapshots(AccelProfiles)
    /\ provider_config \in {AzureConfig, GCPConfig}
    /\ registry = CLOUD_PROVIDERS
    /\ LibraryInit

ValidateAccelerators ==
    Call("validate_accelerators", validate_accelerators(nodes, provider_config), FALSE)

AzureValidateAccelerators ==
    \E listOk \in BOOLEAN :
        Call("AzureProvider.validate_accelerators",
             AzureProvider_validate_accelerators(nodes, listOk), ~listOk)

\* _check_tpu, and its query, is reached only when _check_gpu returned
GCPValidateAccelerators ==
    \E gpuListOk \in BOOLEAN, tpuListOk \in BOOLEAN :
        LET gpuRaised == GCPProvider_check_gpu(nodes, gpuListOk).status = "raised"
        IN  /\ gpuRaised => tpuListOk
            /\ Call("GCPProvider.validate_accelerators",
                    GCPProvider_validate_accelerators(nodes, gpuListOk, tpuListOk),
                    ~gpuListOk \/ ~tpuListOk)

NextAccel ==
    \/ ValidateAccelerators
    \/ AzureValidateAccelerators
    \/ GCPValidateAccelerators

SpecAccel == InitAccel /\ [][NextAccel]_vars

----------------------------------------------------------------------------
(* Detection, applied to every snapshot and registry *)

InitDetect ==
    /\ nodes \in Snapshots(DetectProfiles)
    /\ registry \in Registries
    /\ provider_config = AzureConfig
    /\ LibraryInit

DetectProvider ==
    \E listOk \in BOOLEAN :
        Call("_detect_provider", detect_provider(nodes, listOk, registry), ~listOk)

AzureDetect ==
    \E listOk \in BOOLEAN :
        Call("AzureProvider.detect", AzureProvider_detect(nodes, listOk), ~listOk)

GCPDetect ==
    \E listOk \in BOOLEAN :
        Call("GCPProvider.detect", GCPProvider_detect(nodes, listOk), ~listOk)

NextDetect ==
    \/ DetectProvider
    \/ AzureDetect
    \/ GCPDetect

SpecDetect == InitDetect /\ [][NextDetect]_vars


----------------------------------------------------------------------------
(* Zone compatibility, applied to every snapshot *)

InitZone ==
    /\ nodes \in Snapshots(ZoneProfiles)
    /\ provider_config = GCPConfig
    /\ registry = CLOUD_PROVIDERS
    /\ LibraryInit

ValidateZoneCompatibility ==
    \E listOk \in BOOLEAN :
        Call("GCPProvider.validate_zone_compatibility",
             GCPProvider_validate_zone_compatibility(nodes, listOk), ~listOk)

\* the zone check asked of an AzureProvider
AzureValidateZoneCompatibility ==
    Call("AzureProvider.validate_zone_compatibility",
         AzureProvider_validate_zone_compatibility, FALSE)

NextZone ==
    \/ ValidateZoneCompatibility
    \/ AzureValidateZoneCompatibility

SpecZone == InitZone /\ [][NextZone]_vars

----------------------------------------------------------------------------
(* The generic validators over reorderings of one snapshot *)

\* the node lists that hold the nodes of ns in another order, ns included
Reorderings(ns) ==
    { [i \in 1..Len(ns) |-> ns[p[i]]] : p \in Permutations(1..Len(ns)) }

InitReorder ==
    /\ nodes \in Snapshots(MixedProfiles)
    /\ provider_config \in {AzureConfig, GCPConfig, MixedConfig}
    /\ registry = CLOUD_PROVIDERS
    /\ LibraryInit

\* an operation called on a node list taken in place of the current one
CallReordered(op, r, ns) ==
    /\ pc = "library"
    /\ nodes' = ns
    /\ result' = Outcome(op, r, FALSE)
    /\ log' = r.warnings
    /\ listCalls' = r.queries
    /\ UNCHANGED <<registry, pc, cloud_provider, provider_config, suite,
                   tests, queue, calls, crds, crds_cache, exit_status>>

ReorderValidateInstanceTypes ==
    \E ns \in Reorderings(nodes) :
        CallReordered("validate_instance_types",
                      validate_instance_types(ns, provider_config), ns)

ReorderValidateAccelerators ==
    \E ns \in Reorderings(nodes) :
        CallReordered("validate_accelerators",
                      validate_accelerators(ns, provider_config), ns)

NextReorder ==
    \/ ReorderValidateInstanceTypes
    \/ ReorderValidateAccelerators

SpecReorder == InitReorder /\ [][NextReorder]_vars

----------------------------------------------------------------------------
(* Accelerator validation over snapshots that differ in extra labels only *)

\* node with the label key set to value, or without the key
WithLabel(node, key, value) ==
    IF node.labels = NoneValue THEN node
    ELSE [node EXCEPT !.labels =
             IF value = Absent
             THEN [k \in DOMAIN node.labels \ {key} |-> node.labels[k]]
             ELSE [k \in DOMAIN node.labels \cup {key} |->
                      IF k = key THEN value ELSE node.labels[k]]]

\* the node lists that differ from ns in the topology labels only, ns included
Relabelings(ns) ==
    { [i \in 1..Len(ns) |-> WithLabel(ns[i], GKE_TPU_TOPOLOGY_LABEL, t[i])] :
      t \in [1..Len(ns) -> TopologyValues] }

InitExtra ==
    /\ nodes \in Snapshots(TopologyProfiles)
    /\ provider_config = GCPConfig
    /\ registry = CLOUD_PROVIDERS
    /\ LibraryInit

RelabelValidateAccelerators ==
    \E ns \in Relabelings(nodes) :
        CallReordered("validate_accelerators",
                      validate_accelerators(ns, provider_config), ns)

RelabelCheckTpu ==
    \E ns \in Relabelings(nodes) :
        CallReordered("GCPProvider._check_tpu", GCPProvider_check_tpu(ns, TRUE), ns)

NextExtra ==
    \/ RelabelValidateAccelerators
    \/ RelabelCheckTpu

SpecExtra == InitExtra /\ [][NextExtra]_vars

----------------------------------------------------------------------------
(* Every validator, applied to snapshots with instance, accelerator and zone data *)

InitValidators ==
    /\ nodes \in Snapshots({p \in MixedProfiles :
                                    Get(Labels(p), INSTANCE_TYPE_LABEL, <<>>) # N1_STANDARD_4}
                           \cup {p \in ZoneProfiles :
                                    Get(Labels(p), GKE_ACCELERATOR_LABEL, <<>>) = T4}
                           \cup {BareNode})
    /\ provider_config \in {AzureConfig, GCPConfig}
    /\ registry = CLOUD_PROVIDERS
    /\ LibraryInit

NextValidators ==
    \/ NextInstance
    \/ NextAccel
    \/ NextZone
    \/ NextDetect

SpecValidators == InitValidators /\ [][NextValidators]_vars

----------------------------------------------------------------------------
(* LLMDXKSChecks: the test registry *)

\* _build_test_registry: the checks in registry order
TEST_REGISTRY ==
    << [suite |-> "cluster",   name |-> "instance_type",        optional |-> FALSE],
       [suite |-> "cluster",   name |-> "accelerators",         optional |-> FALSE],
       [suite |-> "operators", name |-> "crd_certmanager",      optional |-> FALSE],
       [suite |-> "operators", name |-> "operator_certmanager", optional |-> FALSE],
       [suite |-> "operators", name |-> "crd_sailoperator",     optional |-> FALSE],
       [suite |-> "operators", name |-> "operator_sail",        optional |-> FALSE],
       [suite |-> "operators", name |-> "crd_lwsoperator",      optional |-> TRUE],
       [suite |-> "operators", name |-> "operator_lws",         optional |-> TRUE],
       [suite |-> "operators", name |-> "crd_kserve",           optional |-> FALSE],
       [suite |-> "operators", name |-> "operator_kserve",      optional |-> FALSE] >>

TestNames == {TEST_REGISTRY[i].name : i \in 1..Len(TEST_REGISTRY)}

\* every check starts with "result": False
InitialTests == [n \in TestNames |-> FALSE]

\* mutant: "all" walks the operators suite first
SuitesOf_reversed(s) == IF s = "all" THEN <<"operators", "cluster">> ELSE <<s>>

\* suites = ["cluster", "operators"] if suite == "all" else [suite]
SuitesOf(s) == IF s = "all" THEN <<"cluster", "operators">> ELSE <<s>>

\* the checks of one suite, in registry order
ChecksOfSuite(s) ==
    LET InSuite(t) == t.suite = s
        picked == SelectSeq(TEST_REGISTRY, InSuite)
    IN  [i \in 1..Len(picked) |-> picked[i].name]

\* the checks run() and report() walk for a suite argument, in order
RECURSIVE ChecksOfSuites(_)
ChecksOfSuites(ss) ==
    IF ss = <<>> THEN <<>> ELSE ChecksOfSuite(ss[1]) \o ChecksOfSuites(Tail(ss))

REQUIRED_CRDS ==
    [crd_certmanager |->
        {"certificaterequests.cert-manager.io", "certificates.cert-manager.io",
         "clusterissuers.cert-manager.io", "issuers.cert-manager.io"},
     crd_sailoperator |->
        {"istiocnis.sailoperator.io", "istiorevisions.sailoperator.io",
         "istiorevisiontags.sailoperator.io", "istios.sailoperator.io",
         "ztunnels.sailoperator.io"},
     crd_lwsoperator |-> {"leaderworkersets.leaderworkerset.x-k8s.io"},
     crd_kserve |->
        {"llminferenceservices.serving.kserve.io",
         "llminferenceserviceconfigs.serving.kserve.io",
         "inferencepools.inference.networking.k8s.io",
         "inferencemodels.inference.networking.x-k8s.io",
         "inferenceobjectives.inference.networking.x-k8s.io",
         "inferencepoolimports.inference.networking.x-k8s.io",
         "inferencepools.inference.networking.x-k8s.io"}]

CrdChecks == DOMAIN REQUIRED_CRDS

REQUIRED_DEPLOYMENTS ==
    [operator_certmanager |->
        {<<"cert-manager-operator", "cert-manager-operator-controller-manager">>,
         <<"cert-manager", "cert-manager-webhook">>,
         <<"cert-manager", "cert-manager-cainjector">>,
         <<"cert-manager", "cert-manager">>},
     operator_sail |->
        {<<"istio-system", "istiod">>, <<"istio-system", "servicemesh-operator3">>},
     operator_lws |-> {<<"openshift-lws-operator", "openshift-lws-operator">>},
     operator_kserve |-> {<<"opendatahub", "kserve-controller-manager">>}]

OperatorChecks == DOMAIN REQUIRED_DEPLOYMENTS

AllCrds == UNION {REQUIRED_CRDS[c] : c \in CrdChecks}

\* CRD inventories of the cluster
CrdSets == {AllCrds, AllCrds \ REQUIRED_CRDS["crd_lwsoperator"], {}}

----------------------------------------------------------------------------
(* LLMDXKSChecks: the check functions *)

\* the tail of both wrappers: the message is logged, at WARNING when the
\* validation failed, and success is returned; an exception of the validator
\* passes through
logged_success(r) ==
    IF r.status = "raised" THEN r
    ELSE WithWarnings(Returned(r.value.success),
                      r.warnings \o
                      (IF r.value.success THEN <<>> ELSE <<r.value.message>>))

\* _test_instance_types
test_instance_types(ns, listOk, cfg) ==
    Listed(IF ~listOk THEN Raised("ApiException")
           ELSE logged_success(validate_instance_types(ns, cfg)))

\* _test_accelerators
test_accelerators(ns, listOk, cfg) ==
    Listed(IF ~listOk THEN Raised("ApiException")
           ELSE logged_success(validate_accelerators(ns, cfg)))

\* _test_crds_present over the names _get_all_crd_names returned, as the
\* test_crd_* functions use it
test_crds_present(required_crds, all_crds) ==
    LET missing == required_crds \ all_crds
    IN  WithWarnings(Returned(missing = {}),
                     IF missing = {} THEN <<>> ELSE << <<"Missing CRDs">> >>)

\* a test_operator_* function: every deployment is read, and all must be ready
test_operator(deployments, ready) == Returned(deployments \subseteq ready)


----------------------------------------------------------------------------
(* The process: main() constructs LLMDXKSChecks, runs, reports, exits *)

AZURE_GPU_NODE ==
    [labels |-> (AZURE_CLUSTER_LABEL :> <<"cluster", "-", "1">>)
                @@ (INSTANCE_TYPE_LABEL :> SUPPORTED_INSTANCES[1])
                @@ (GPU_PRESENT_LABEL :> <<"true">>),
     allocatable |-> (NVIDIA_GPU_RESOURCE :> <<"2">>)]

AZURE_NO_DRIVER_NODE ==
    [labels |-> (AZURE_CLUSTER_LABEL :> <<"cluster", "-", "1">>)
                @@ (BETA_INSTANCE_TYPE_LABEL :> SUPPORTED_INSTANCES[2])
                @@ (GPU_PRESENT_LABEL :> <<"true">>),
     allocatable |-> (NVIDIA_GPU_RESOURCE :> <<"0">>)]

BAD_QUANTITY_NODE ==
    [labels |-> (AZURE_CLUSTER_LABEL :> <<"cluster", "-", "1">>),
     allocatable |-> (NVIDIA_GPU_RESOURCE :> <<"abc">>)]

OTHER_CLOUD_NODE ==
    [labels |-> (INSTANCE_TYPE_LABEL :> N2_STANDARD_4),
     allocatable |-> EmptyDict]

MainProfiles ==
    {AZURE_GPU_NODE, AZURE_NO_DRIVER_NODE, BAD_QUANTITY_NODE, OTHER_CLOUD_NODE}

\* CLOUD_PROVIDERS[name]
ConfigOf(reg, name) == reg[CHOOSE i \in 1..Len(reg) : reg[i].name = name].config

\* self.provider_config before __init__ assigns it
NoConfig == [config |-> "None"]

Init ==
    /\ nodes \in Snapshots(MainProfiles)
    /\ registry = CLOUD_PROVIDERS
    /\ cloud_provider \in {"auto", "azure"}
    /\ suite \in {"all", "cluster", "operators"}
    /\ crds \in CrdSets
    /\ crds_cache = NoCache
    /\ provider_config = NoConfig
    /\ tests = NoTests
    /\ result = NoResult
    /\ log = <<>>
    /\ listCalls = 0
    /\ queue = <<>>
    /\ calls = <<>>
    /\ pc = "start"
    /\ exit_status = -1

\* sys.exit(status), also the interpreter's exit on an unhandled exception
Exit(status) ==
    /\ pc' = "exited"
    /\ exit_status' = status

\* mutant: a detection that found nothing does not stop the constructor
detection_failed_ignored(provider) == FALSE

\* "if self.cloud_provider is None" after _detect_provider
detection_failed(provider) == provider = NotFound

\* "name in CLOUD_PROVIDERS"
HasProvider(reg, name) == \E i \in 1..Len(reg) : reg[i].name = name

\* the end of __init__: the provider's configuration is looked up (a KeyError
\* for a name missing from the registry ends the process), the CRD cache is
\* reset and the test registry built
Configure(name, logged) ==
    /\ cloud_provider' = name
    /\ log' = logged
    /\ IF HasProvider(registry, name)
       THEN /\ provider_config' = ConfigOf(registry, name)
            /\ crds_cache' = NoCache
            /\ tests' = InitialTests
            /\ pc' = "constructed"
            /\ UNCHANGED exit_status
       ELSE /\ Exit(1)
            /\ UNCHANGED <<provider_config, tests, crds_cache>>

\* LLMDXKSChecks.__init__ as main() calls it
Construct ==
    /\ pc = "start"
    /\ \E connected \in BOOLEAN, listOk \in BOOLEAN :
         IF ~connected
         THEN /\ listOk
              /\ Exit(1)
              /\ log' = Append(log, <<"Failed to connect to Kubernetes cluster">>)
              /\ UNCHANGED <<cloud_provider, provider_config, tests, result, listCalls,
                             crds_cache>>
         ELSE IF cloud_provider = "auto"
         THEN LET r == detect_provider(nodes, listOk, registry)
              IN  /\ result' = Outcome("_detect_provider", r, ~listOk)
                  /\ listCalls' = r.queries
                  /\ IF detection_failed(r.value)
                     THEN /\ Exit(2)
                          /\ cloud_provider' = r.value
                          /\ log' = log \o r.warnings
                                    \o << <<"Failed to detect cloud provider">> >>
                          /\ UNCHANGED <<provider_config, tests, crds_cache>>
                     ELSE Configure(r.value, log \o r.warnings)
         ELSE /\ listOk
              /\ Configure(cloud_provider, log)
              /\ UNCHANGED <<result, listCalls>>
    /\ UNCHANGED <<nodes, registry, suite, queue, calls, crds>>

\* run(): the suites are fixed and the loop over their checks starts
RunStart ==
    /\ pc = "constructed"
    /\ queue' = ChecksOfSuites(SuitesOf(suite))
    /\ calls' = <<>>
    /\ pc' = "running"
    /\ UNCHANGED <<nodes, registry, result, log, listCalls, cloud_provider,
                   provider_config, suite, tests, crds, crds_cache, exit_status>>

\* one iteration of run()'s loop: the check's function was called and gave r.
\* An exception of the function is caught nowhere: it ends run(), main() and
\* the process.
CheckStep(name, op, r, listFailed) ==
    /\ pc = "running"
    /\ queue # <<>>
    /\ Head(queue) = name
    /\ calls' = Append(calls, name)
    /\ result' = Outcome(op, r, listFailed)
    /\ listCalls' = r.queries
    /\ IF r.status = "raised"
       THEN /\ Exit(1)
            /\ log' = log \o r.warnings
            /\ UNCHANGED <<tests, queue>>
       ELSE /\ tests' = [tests EXCEPT ![name] = r.value]
            /\ queue' = Tail(queue)
            /\ log' = log \o r.warnings
                      \o (IF r.value THEN <<>> ELSE << <<"Test ", name, " failed">> >>)
            /\ UNCHANGED <<pc, exit_status>>
    /\ UNCHANGED <<nodes, registry, cloud_provider, provider_config, suite, crds>>

TestInstanceTypes ==
    \E listOk \in BOOLEAN :
        /\ CheckStep("instance_type", "_test_instance_types",
                     test_instance_types(nodes, listOk, provider_config), ~listOk)
        /\ UNCHANGED crds_cache

TestAccelerators ==
    \E listOk \in BOOLEAN :
        /\ CheckStep("accelerators", "_test_accelerators",
                     test_accelerators(nodes, listOk, provider_config), ~listOk)
        /\ UNCHANGED crds_cache

\* mutant: the cache is never used
cache_hit_never(cache) == FALSE

\* "cache and self.crds_cache is not None", cache being True at every call
cache_hit(cache) == cache # NoCache

\* a test_crd_* function: _get_all_crd_names answers from the cache when it is
\* set, and otherwise queries the cluster once, which may fail, and fills the
\* cache
TestCrds ==
    \E name \in CrdChecks :
        IF cache_hit(crds_cache)
        THEN /\ CheckStep(name, "test_crd",
                          test_crds_present(REQUIRED_CRDS[name], crds_cache), FALSE)
             /\ UNCHANGED crds_cache
        ELSE \E queryOk \in BOOLEAN :
                IF queryOk
                THEN /\ CheckStep(name, "test_crd",
                                  Listed(test_crds_present(REQUIRED_CRDS[name], crds)),
                                  FALSE)
                     /\ crds_cache' = crds
                ELSE /\ CheckStep(name, "test_crd", Listed(Raised("ApiException")), FALSE)
                     /\ UNCHANGED crds_cache

\* a test_operator_* function: _deployment_ready turns a failed read into False
TestOperator ==
    \E name \in OperatorChecks :
        \E ready \in SUBSET REQUIRED_DEPLOYMENTS[name] :
            /\ CheckStep(name, "test_operator",
                         test_operator(REQUIRED_DEPLOYMENTS[name], ready), FALSE)
            /\ UNCHANGED crds_cache

\* run() returns once the loop is through
RunReturn ==
    /\ pc = "running"
    /\ queue = <<>>
    /\ pc' = "ran"
    /\ UNCHANGED <<nodes, registry, result, log, listCalls, cloud_provider,
                   provider_config, suite, tests, queue, calls, crds, crds_cache,
                   exit_status>>

\* mutant: a failed optional check is counted like any other
failed_counter_all(results, s) ==
    Cardinality({i \in 1..Len(TEST_REGISTRY) :
                    /\ \E j \in 1..Len(SuitesOf(s)) : TEST_REGISTRY[i].suite = SuitesOf(s)[j]
                    /\ ~results[TEST_REGISTRY[i].name]})

\* failed_counter of report(): the checks of the reported suites whose result
\* is falsy and that are not optional
failed_counter(results, s) ==
    Cardinality({i \in 1..Len(TEST_REGISTRY) :
                    /\ \E j \in 1..Len(SuitesOf(s)) : TEST_REGISTRY[i].suite = SuitesOf(s)[j]
                    /\ ~results[TEST_REGISTRY[i].name]
                    /\ ~TEST_REGISTRY[i].optional})

\* report() as main() calls it
Report ==
    /\ pc = "ran"
    /\ result' = Outcome("report", Returned(failed_counter(tests, suite)), FALSE)
    /\ pc' = "reported"
    /\ UNCHANGED <<nodes, registry, log, listCalls, cloud_provider, provider_config,
                   suite, tests, queue, calls, crds, crds_cache, exit_status>>

\* sys.exit(validator.report())
MainExit ==
    /\ pc = "reported"
    /\ Exit(result.value)
    /\ UNCHANGED <<nodes, registry, result, log, listCalls, cloud_provider,
                   provider_config, suite, tests, queue, calls, crds, crds_cache>>

Next ==
    \/ Construct
    \/ RunStart
    \/ TestInstanceTypes
    \/ TestAccelerators
    \/ TestCrds
    \/ TestOperator
    \/ RunReturn
    \/ Report
    \/ MainExit

Spec == Init /\ [][Next]_vars

\* the process is scheduled as long as it has a step to take: every call of
\* main() returns or raises
SpecLive == Spec /\ WF_<<pc, calls>>(Next)

----------------------------------------------------------------------------
(* A constructed LLMDXKSChecks whose run() and report() are called in any   *)
(* order, by a caller that survives an exception of run()                   *)

SUITES == {"all", "cluster", "operators"}

\* mutant: a failed optional check is printed as FAIL
report_status_no_skip(stored, optional) == IF stored THEN "PASS" ELSE "FAIL"

\* PASS, SKIP or FAIL of one check, as report() prints it
report_status(stored, optional) ==
    IF stored THEN "PASS" ELSE IF optional THEN "SKIP" ELSE "FAIL"

\* the loop of report() over the checks of the reported suites: one printed
\* line per check, and the counters
RECURSIVE report_scan(_, _, _)
report_scan(results, names, acc) ==
    IF names = <<>> THEN acc
    ELSE LET t == TEST_REGISTRY[CHOOSE i \in 1..Len(TEST_REGISTRY) :
                                   TEST_REGISTRY[i].name = names[1]]
             status == report_status(results[t.name], t.optional)
         IN  report_scan(results, Tail(names),
                 [printed |-> Append(acc.printed, [name |-> t.name, status |-> status]),
                  passed_counter |->
                      acc.passed_counter + (IF status = "PASS" THEN 1 ELSE 0),
                  optional_failed_counter |->
                      acc.optional_failed_counter + (IF status = "SKIP" THEN 1 ELSE 0)])

\* report(suite): what it prints and counts; failed_counter is what it returns
report(results, s) ==
    LET scan == report_scan(results, ChecksOfSuites(SuitesOf(s)),
                            [printed |-> <<>>, passed_counter |-> 0,
                             optional_failed_counter |-> 0])
    IN  [suite |-> s,
         printed |-> scan.printed,
         passed_counter |-> scan.passed_counter,
         failed_counter |-> failed_counter(results, s),
         optional_failed_counter |-> scan.optional_failed_counter]

InitObject ==
    /\ nodes \in Snapshots({AZURE_GPU_NODE})
    /\ registry = CLOUD_PROVIDERS
    /\ cloud_provider = "azure"
    /\ provider_config = AzureConfig
    /\ suite = "all"
    /\ crds \in CrdSets
    /\ crds_cache = NoCache
    /\ tests = InitialTests
    /\ result = NoResult
    /\ log = <<>>
    /\ listCalls = 0
    /\ queue = <<>>
    /\ calls = <<>>
    /\ pc = "constructed"
    /\ exit_status = -1

\* run(s): the suites are fixed and the loop over their checks starts; log
\* holds the records of the call under way
ObjectRun ==
    \E s \in SUITES :
        /\ pc \in {"constructed", "ran"}
        /\ queue' = ChecksOfSuites(SuitesOf(s))
        /\ calls' = <<>>
        /\ log' = <<>>
        /\ pc' = "running"
        /\ UNCHANGED <<nodes, registry, result, listCalls, cloud_provider,
                       provider_config, suite, tests, crds, crds_cache, exit_status>>

\* an exception of a check function leaves run(); this caller catches it and
\* keeps the object
ObjectCatch ==
    /\ pc = "exited"
    /\ result.status = "raised"
    /\ pc' = "constructed"
    /\ exit_status' = -1
    /\ UNCHANGED <<nodes, registry, result, log, listCalls, cloud_provider,
                   provider_config, suite, tests, queue, calls, crds, crds_cache>>

\* report(s)
ObjectReport ==
    \E s \in SUITES :
        /\ pc \in {"constructed", "ran"}
        /\ result' = Outcome("report", Returned(report(tests, s)), FALSE)
        /\ UNCHANGED <<nodes, registry, log, listCalls, pc, cloud_provider,
                       provider_config, suite, tests, queue, calls, crds, crds_cache,
                       exit_status>>

\* the cluster: CRDs are installed and removed while the checks run
CrdsChange ==
    /\ pc = "running"
    /\ crds' \in CrdSets \ {crds}
    /\ UNCHANGED <<nodes, registry, result, log, listCalls, pc, cloud_provider,
                   provider_config, suite, tests, queue, calls, crds_cache,
                   exit_status>>

NextObject ==
    \/ ObjectRun
    \/ TestInstanceTypes
    \/ TestAccelerators
    \/ TestCrds
    \/ TestOperator
    \/ RunReturn
    \/ ObjectCatch
    \/ ObjectReport
    \/ CrdsChange

SpecObject == InitObject /\ [][NextObject]_vars


----------------------------------------------------------------------------
(* Properties: vocabulary *)

NodeIndices == 1..Len(nodes)

\* number of places where sub occurs in t
Occurrences(t, sub) ==
    Cardinality({i \in 0..(Len(t) - Len(sub)) : SubSeq(t, i + 1, i + Len(sub)) = sub})

LabelSet(node, key) ==
    /\ node.labels # NoneValue
    /\ key \in DOMAIN node.labels
    /\ node.labels[key] # <<>>

\* the instance type of a node: the newer label when it is set, else the legacy one
EffectiveInstanceType(node) ==
    IF LabelSet(node, INSTANCE_TYPE_LABEL) THEN node.labels[INSTANCE_TYPE_LABEL]
    ELSE IF LabelSet(node, BETA_INSTANCE_TYPE_LABEL)
    THEN node.labels[BETA_INSTANCE_TYPE_LABEL]
    ELSE <<>>

HasSeparator(families) == \E f \in Range(families) : \E k \in 1..Len(f) : f[k] = "_"

ExactMatch(node, families) == EffectiveInstanceType(node) \in Range(families)

PrefixMatch(node, families) ==
    SplitFirst(EffectiveInstanceType(node), "-") \in Range(families)

ModeMatch(node, families) ==
    IF HasSeparator(families) THEN ExactMatch(node, families)
    ELSE PrefixMatch(node, families)

\* the (instance-type, node-name) entry of a node in a message
PairEntry(node) == EffectiveInstanceType(node) \o <<" on ", node.name>>

ValidatedInstanceTypes ==
    result.op = "validate_instance_types" /\ result.status = "returned"

----------------------------------------------------------------------------
(* C7: validate_instance_types uses exact matching iff some configured       *)
(* family contains "_", and prefix matching otherwise; the mode follows from *)
(* the family list alone and is the same for every node of the snapshot: the *)
(* nodes named in the message are exactly those that match in that one mode. *)
C7_ModeFromFamilies ==
    ValidatedInstanceTypes =>
        LET families == provider_config.instance_families
            named == {i \in NodeIndices : nodes[i].name \in Range(result.value.message)}
        IN  named = IF \E f \in Range(families) : "_" \in Range(f)
                    THEN {i \in NodeIndices : ExactMatch(nodes[i], families)}
                    ELSE {i \in NodeIndices : PrefixMatch(nodes[i], families)}

\* a mixed family list selects exact mode, and a node that prefix mode would
\* accept is left out
C7_Witness ==
    /\ ValidatedInstanceTypes
    /\ provider_config = MixedConfig
    /\ \E i \in NodeIndices :
          /\ PrefixMatch(nodes[i], provider_config.instance_families)
          /\ nodes[i].name \notin Range(result.value.message)
    /\ \E i \in NodeIndices : nodes[i].name \in Range(result.value.message)

(* C8: the two modes are mutually exclusive.  In exact mode a node is matched *)
(* iff its full instance-type value equals a configured family (a value whose *)
(* first hyphen-delimited segment is a family is not); in prefix mode iff the *)
(* substring before its first hyphen is a configured family.                  *)
C8_ModesExclusive ==
    ValidatedInstanceTypes =>
        LET families == provider_config.instance_families
        IN  \A i \in NodeIndices :
                LET listed == Contains(result.value.message, PairEntry(nodes[i]))
                IN  /\ HasSeparator(families) =>
                          (listed <=> EffectiveInstanceType(nodes[i]) \in Range(families))
                    /\ ~HasSeparator(families) =>
                          (listed <=> SplitFirst(EffectiveInstanceType(nodes[i]), "-")
                                        \in Range(families))

\* exact mode: a SKU with a suffix after a hyphen is not matched although its
\* first segment is a family, next to a node that is matched
C8_Witness ==
    /\ ValidatedInstanceTypes
    /\ provider_config = AzureConfig
    /\ result.value.success
    /\ \E i \in NodeIndices :
          /\ EffectiveInstanceType(nodes[i]) = SPOT_SKU
          /\ ~Contains(result.value.message, PairEntry(nodes[i]))

InstanceValidators ==
    {"validate_instance_types", "AzureProvider.validate_instance_types",
     "GCPProvider.validate_instance_types"}

\* the family list an instance-type validator checks against
FamiliesOf(op) ==
    IF op = "validate_instance_types" THEN provider_config.instance_families
    ELSE IF op = "AzureProvider.validate_instance_types" THEN SUPPORTED_INSTANCES
    ELSE TPU_MACHINE_FAMILIES \o GPU_MACHINE_FAMILIES

(* C9: in every instance-type validator the instance type of a node is the   *)
(* newer label's value when set and the legacy label's value otherwise, so a *)
(* node that carries only one of the two labels is matched on that label:    *)
(* the validator succeeds iff some node's effective instance type matches.   *)
C9_EitherLabelSuffices ==
    (result.op \in InstanceValidators /\ result.status = "returned") =>
        (result.value.success <=>
            \E i \in NodeIndices : ModeMatch(nodes[i], FamiliesOf(result.op)))

(* C10 as stated: the instance-type check succeeds iff some node matches; on *)
(* success the message holds one (instance-type, node-name) entry per        *)
(* matched node and none for the others; on failure it holds the family list.*)
C10_PairEntriesEverywhere ==
    (/\ result.op \in {"validate_instance_types", "AzureProvider.validate_instance_types"}
     /\ result.status = "returned") =>
        LET families == FamiliesOf(result.op)
            message == result.value.message
        IN  /\ result.value.success <=> \E i \in NodeIndices : ModeMatch(nodes[i], families)
            /\ result.value.success =>
                  \A i \in NodeIndices :
                      Occurrences(message, PairEntry(nodes[i]))
                          = IF ModeMatch(nodes[i], families) THEN 1 ELSE 0
            /\ ~result.value.success => Contains(message, ListRepr(families))

(* C10 amended: validate_instance_types and AzureProvider succeed iff some    *)
(* node matches a configured family, and on failure the message holds the    *)
(* full family list.  On success the message of validate_instance_types      *)
(* holds exactly one (instance-type, node-name) entry per matched node and   *)
(* none for the others; AzureProvider's holds, per matched instance type,    *)
(* the type with its node count, and names no node.  Nodes with an empty or  *)
(* unmatched instance type are skipped, and the check returns.               *)
C10_InstanceTypeResult ==
    (result.op \in {"validate_instance_types", "AzureProvider.validate_instance_types"}
     /\ ~result.listFailed) =>
        /\ result.status = "returned"
        /\ LET families == FamiliesOf(result.op)
               message == result.value.message
               matched == {i \in NodeIndices : ModeMatch(nodes[i], families)}
           IN  /\ result.value.success <=> matched # {}
               /\ ~result.value.success => Contains(message, ListRepr(families))
               /\ (result.value.success /\ result.op = "validate_instance_types") =>
                     \A i \in NodeIndices :
                         Occurrences(message, PairEntry(nodes[i]))
                             = IF i \in matched THEN 1 ELSE 0
               /\ (result.value.success /\ result.op # "validate_instance_types") =>
                     /\ \A i \in NodeIndices : nodes[i].name \notin Range(message)
                     /\ \A i \in matched :
                           LET vm == EffectiveInstanceType(nodes[i])
                               count == Cardinality({j \in matched :
                                            EffectiveInstanceType(nodes[j]) = vm})
                           IN  Occurrences(message,
                                   vm \o <<" (">> \o IntText(count) \o <<" nodes)">>) = 1

\* a success over a snapshot with a matching node and a node of an
\* unsupported type
C10_Witness ==
    /\ ValidatedInstanceTypes
    /\ result.value.success
    /\ \E i \in NodeIndices : ModeMatch(nodes[i], provider_config.instance_families)
    /\ \E i \in NodeIndices :
          /\ EffectiveInstanceType(nodes[i]) = N2_STANDARD_4
          /\ ~ModeMatch(nodes[i], provider_config.instance_families)


----------------------------------------------------------------------------
(* Properties of accelerator validation *)

AcceleratorValidators ==
    {"validate_accelerators", "AzureProvider.validate_accelerators",
     "GCPProvider.validate_accelerators"}

\* the allocatable value of the accelerator's resource key, "0" when absent
ResourceText(node, accel) ==
    IF node.allocatable # NoneValue /\ accel.resource_key \in DOMAIN node.allocatable
    THEN node.allocatable[accel.resource_key]
    ELSE <<"0">>

\* the node counts toward the accelerator class
Qualifies(node, accel) ==
    /\ LabelSet(node, accel.type_label)
    /\ IntParse(ResourceText(node, accel)).ok
    /\ IntParse(ResourceText(node, accel)).val > 0

SomeNodeQualifies ==
    \E a \in 1..Len(provider_config.accelerators) :
        \E i \in NodeIndices : Qualifies(nodes[i], provider_config.accelerators[a])

(* C1: in validate_accelerators a node counts toward an accelerator class iff *)
(* its presence label has a non-empty value and its integer-parsed           *)
(* allocatable value is greater than 0: the class segment of the message     *)
(* names exactly those nodes; and for every snapshot the overall result is   *)
(* success iff some class has at least one such node.                        *)
C1_SuccessIffQualifying ==
    result.op = "validate_accelerators" =>
        /\ result.status = "returned"
        /\ result.value.success <=> SomeNodeQualifies
        /\ result.value.success =>
              \A a \in 1..Len(provider_config.accelerators) :
                  \A i \in NodeIndices :
                      LET accel == provider_config.accelerators[a]
                      IN  Qualifies(nodes[i], accel)
                          <=> Contains(result.value.message,
                                       <<nodes[i].name, " (">>
                                       \o Get(Labels(nodes[i]), accel.type_label, <<>>)
                                       \o <<": ">>)

(* C2: an allocatable value that cannot be parsed as an integer is treated   *)
(* as zero, the node counting as absent for the class, and the accelerator   *)
(* check still returns a (success, message) result: whenever its node query  *)
(* succeeded the check returns, and never raises.                            *)
C2_UnparsableNeverRaises ==
    (result.op \in AcceleratorValidators /\ ~result.listFailed) =>
        result.status = "returned"

----------------------------------------------------------------------------
(* Properties of provider detection *)

\* some node carries one of the provider's detect labels, whatever its value
CarriesDetectLabel(entry) ==
    \E i \in NodeIndices :
        /\ nodes[i].labels # NoneValue
        /\ \E key \in Range(entry.config.detect_labels) : key \in DOMAIN nodes[i].labels

(* C4: provider detection goes through the registry in declaration order    *)
(* and returns the first provider for which any node carries any of its     *)
(* detect labels (key presence, whatever the value); it returns not-found   *)
(* when no provider matches, and so for every empty node set.               *)
C4_FirstMatchInOrder ==
    (result.op = "_detect_provider" /\ ~result.listFailed) =>
        LET matching == {k \in 1..Len(registry) : CarriesDetectLabel(registry[k])}
        IN  /\ result.status = "returned"
            /\ matching = {} => result.value = NotFound
            /\ matching # {} =>
                  \E k \in matching :
                      /\ result.value = registry[k].name
                      /\ \A j \in matching : k <= j
            /\ nodes = <<>> => result.value = NotFound

\* two providers match, the first only through a label with an empty value,
\* and the first one is returned
C4_Witness ==
    /\ result.op = "_detect_provider"
    /\ ~result.listFailed
    /\ Len(registry) = 2
    /\ CarriesDetectLabel(registry[1])
    /\ CarriesDetectLabel(registry[2])
    /\ registry[1].name = "azure"
    /\ \A i \in NodeIndices :
          nodes[i].labels # NoneValue =>
              (AZURE_CLUSTER_LABEL \in DOMAIN nodes[i].labels
                  => nodes[i].labels[AZURE_CLUSTER_LABEL] = <<>>)
    /\ result.value = "azure"

Detectors == {"_detect_provider", "AzureProvider.detect", "GCPProvider.detect"}

(* C5: provider detection performs exactly one node-listing query; when the *)
(* query fails, detection reports not-found with the error logged: it       *)
(* neither raises nor queries again.                                        *)
C5_OneQueryNoRetry ==
    result.op \in Detectors =>
        /\ listCalls = 1
        /\ result.status = "returned"
        /\ result.listFailed =>
              /\ log # <<>>
              /\ result.op = "_detect_provider" => result.value = NotFound
              /\ result.op # "_detect_provider" => result.value = FALSE

\* the query failed over a snapshot in which a provider would have been found
C5_Witness ==
    /\ result.op = "_detect_provider"
    /\ result.listFailed
    /\ \E k \in 1..Len(registry) : CarriesDetectLabel(registry[k])
    /\ result.value = NotFound
    /\ listCalls = 1

----------------------------------------------------------------------------
(* Properties of the process *)

ClusterChecks == {"_test_instance_types", "_test_accelerators"}

(* C3: when listing nodes fails inside a validator, the validator returns a *)
(* failed result carrying the error text; the failure does not escape the   *)
(* validator as an exception, and the run goes on to the remaining checks.  *)
C3_ListFailureContained ==
    (result.op \in ClusterChecks /\ result.listFailed) =>
        /\ result.status = "returned"
        /\ result.value = FALSE
        /\ pc = "running"
        /\ exit_status = -1

(* C6: detection failure is a hard stop that precedes all validation.  With *)
(* provider "auto", a detection that returns not-found makes the process    *)
(* exit with status 2 before a provider config is selected and before any   *)
(* validator runs; with a forced provider no detection is performed; and no *)
(* validator runs unless the provider config was fixed beforehand, and none *)
(* changes it.                                                              *)
C6_DetectionPrecedesValidation ==
    /\ []((result.op = "_detect_provider" /\ result.value = NotFound) =>
            /\ pc = "exited"
            /\ exit_status = 2
            /\ provider_config = NoConfig
            /\ tests = NoTests
            /\ calls = <<>>)
    /\ []((calls # <<>> \/ pc \in {"constructed", "running", "ran", "reported"}) =>
            /\ HasProvider(registry, cloud_provider)
            /\ provider_config = ConfigOf(registry, cloud_provider))
    /\ [][(pc = "start" /\ pc' # "start") =>
            /\ cloud_provider # "auto" =>
                  /\ result' = NoResult
                  /\ listCalls' = 0
                  /\ cloud_provider' = cloud_provider
                  /\ exit_status' # 2
            /\ (cloud_provider = "auto" /\ result'.op = "_detect_provider"
                    /\ result'.value = NotFound) =>
                  /\ exit_status' = 2
                  /\ provider_config' = NoConfig
            /\ (cloud_provider = "auto" /\ pc' = "constructed") =>
                  /\ result'.op = "_detect_provider"
                  /\ listCalls' = 1
                  /\ cloud_provider' = result'.value]_vars
    /\ [][calls' # calls =>
            /\ pc = "running"
            /\ provider_config' = provider_config]_vars

\* provider "auto" over nodes of another cloud: the query succeeded, nothing
\* was detected, and the process has exited with status 2
C6_Witness ==
    /\ exit_status = 2
    /\ result.op = "_detect_provider"
    /\ ~result.listFailed
    /\ nodes # <<>>
    /\ provider_config = NoConfig

----------------------------------------------------------------------------
(* Properties of accelerator validation: driver-absent nodes *)

\* the accelerator definitions a validator checks
AcceleratorsOf(op) ==
    IF op = "validate_accelerators" THEN provider_config.accelerators
    ELSE AzureConfig.accelerators

\* the node has the presence label, and a zero, absent or unparsable quantity
DriverAbsent(node, accel) ==
    /\ LabelSet(node, accel.type_label)
    /\ IntParse(ResourceText(node, accel)).ok => IntParse(ResourceText(node, accel)).val = 0

\* the start of the entry that lists the node as having the accelerator
AvailableEntry(op, node, accel) ==
    IF op = "validate_accelerators"
    THEN <<node.name, " (">> \o Get(Labels(node), accel.type_label, <<>>) \o <<": ">>
    ELSE <<node.name, " (">> \o ResourceText(node, accel) \o <<" GPUs)">>

WarningNames(node) == \E k \in 1..Len(log) : node.name \in Range(log[k])

(* C11: a node that has an accelerator presence label but a zero, absent or  *)
(* unparsable allocatable value never makes the accelerator check pass,      *)
(* never aborts the check, and is recorded with a driver-absent warning that *)
(* names the node.                                                           *)
C11_DriverAbsentWarned ==
    (/\ result.op \in {"validate_accelerators", "AzureProvider.validate_accelerators"}
     /\ ~result.listFailed) =>
        \A a \in 1..Len(AcceleratorsOf(result.op)) :
            \A i \in NodeIndices :
                DriverAbsent(nodes[i], AcceleratorsOf(result.op)[a]) =>
                    /\ result.status = "returned"
                    /\ ~Contains(result.value.message,
                                 AvailableEntry(result.op, nodes[i],
                                                AcceleratorsOf(result.op)[a]))
                    /\ WarningNames(nodes[i])

----------------------------------------------------------------------------
(* Properties of the zone-compatibility check *)

ZoneChecked ==
    result.op = "GCPProvider.validate_zone_compatibility" /\ ~result.listFailed

LabelText(node, key) == IF LabelSet(node, key) THEN node.labels[key] ELSE <<>>

AcceleratorClasses == {"TPU", "GPU"}

\* the accelerator identifier of the node for the class, empty when it has none
AcceleratorId(node, class) ==
    IF class = "TPU" THEN LabelText(node, GKE_TPU_ACCELERATOR_LABEL)
    ELSE LabelText(node, GKE_ACCELERATOR_LABEL)

StartsWith(t, prefix) == Len(t) >= Len(prefix) /\ SubSeq(t, 1, Len(prefix)) = prefix

NVIDIA_TESLA_PREFIX == <<"nvidia", "-", "tesla", "-">>

NVIDIA_PREFIX == <<"nvidia", "-">>

HasVendorPrefix(id) == StartsWith(id, NVIDIA_TESLA_PREFIX) \/ StartsWith(id, NVIDIA_PREFIX)

\* the model key of an identifier: for a TPU the part before the first hyphen,
\* for a GPU the identifier without its vendor prefix
ModelKey(class, id) ==
    IF class = "TPU"
    THEN IF \E k \in 1..Len(id) : id[k] = "-"
         THEN SubSeq(id, 1, (CHOOSE k \in 1..Len(id) :
                                 id[k] = "-" /\ \A j \in 1..(k - 1) : id[j] # "-") - 1)
         ELSE id
    ELSE IF StartsWith(id, NVIDIA_TESLA_PREFIX)
    THEN SubSeq(id, Len(NVIDIA_TESLA_PREFIX) + 1, Len(id))
    ELSE IF StartsWith(id, NVIDIA_PREFIX)
    THEN SubSeq(id, Len(NVIDIA_PREFIX) + 1, Len(id))
    ELSE id

ZoneTable(class) == IF class = "TPU" THEN ZONE_DATA.tpu ELSE ZONE_DATA.gpu

\* the model has a table entry and the node's zone is not a key of it
OutsideValidatedZones(node, class) ==
    LET id == AcceleratorId(node, class)
        zone == LabelText(node, ZONE_LABEL)
    IN  /\ id # <<>>
        /\ zone # <<>>
        /\ ModelKey(class, id) \in DOMAIN ZoneTable(class)
        /\ zone \notin DOMAIN ZoneTable(class)[ModelKey(class, id)]

\* the logged warnings that name the class, the accelerator, the node and the zone
ZoneWarningStart(node, class) ==
    <<class, " ">> \o AcceleratorId(node, class) \o <<" on ", node.name, " in zone ">>
    \o LabelText(node, ZONE_LABEL) \o <<" not in validated zones for ">>

ZoneWarnings(node, class) ==
    {k \in 1..Len(log) : StartsWith(log[k], ZoneWarningStart(node, class))}

FormatWarned(prefix, id) == \E k \in 1..Len(log) : log[k] = <<prefix>> \o id

ZoneWarningLogged ==
    \E k \in 1..Len(log) : \E j \in 1..Len(log[k]) :
        log[k][j] = " not in validated zones for "

(* C12: in the zone check, for every node with a zone label and an          *)
(* accelerator label: when the normalized model has no table entry the node  *)
(* is compatible; when it has one and the node's zone is not a key of it     *)
(* (exact match), one warning naming the accelerator, the node and the zone  *)
(* is emitted.  The check succeeds iff no such warning was emitted; a node   *)
(* without a zone label or without an accelerator label produces none.       *)
C12_ZoneWarnings ==
    ZoneChecked =>
        /\ result.status = "returned"
        /\ \A i \in NodeIndices :
              \A class \in AcceleratorClasses :
                  Cardinality(ZoneWarnings(nodes[i], class))
                      = IF OutsideValidatedZones(nodes[i], class) THEN 1 ELSE 0
        /\ \A i \in NodeIndices :
              (\/ LabelText(nodes[i], ZONE_LABEL) = <<>>
               \/ \A class \in AcceleratorClasses : AcceleratorId(nodes[i], class) = <<>>)
                  => ~WarningNames(nodes[i])
        /\ result.value.success <=>
              \A i \in NodeIndices :
                  \A class \in AcceleratorClasses : ~OutsideValidatedZones(nodes[i], class)

(* C13: for a GPU identifier the model key is the identifier with a known    *)
(* vendor prefix ("nvidia-tesla-" or "nvidia-") stripped from its start; an  *)
(* identifier that does not begin with such a prefix is the model key        *)
(* unchanged, and is flagged with a format warning.                          *)
C13_GpuModelKey ==
    ZoneChecked =>
        /\ result.status = "returned"
        /\ \A i \in NodeIndices :
              LET id == AcceleratorId(nodes[i], "GPU")
              IN  (id # <<>> /\ LabelText(nodes[i], ZONE_LABEL) # <<>>) =>
                      /\ FormatWarned("Unexpected GPU type format (no nvidia prefix): ", id)
                            <=> ~HasVendorPrefix(id)
                      /\ OutsideValidatedZones(nodes[i], "GPU")
                            <=> ZoneWarnings(nodes[i], "GPU") # {}
                      /\ \A k \in ZoneWarnings(nodes[i], "GPU") :
                            log[k] = ZoneWarningStart(nodes[i], "GPU") \o ModelKey("GPU", id)

(* C14: for a TPU identifier the model key is the part before the first     *)
(* hyphen; an identifier without a hyphen is the model key verbatim, is      *)
(* flagged with a format warning, and is still looked up in the zone table:  *)
(* the format warning alone does not fail the check.                         *)
C14_TpuModelKey ==
    ZoneChecked =>
        /\ result.status = "returned"
        /\ \A i \in NodeIndices :
              LET id == AcceleratorId(nodes[i], "TPU")
              IN  (id # <<>> /\ LabelText(nodes[i], ZONE_LABEL) # <<>>) =>
                      /\ FormatWarned("Unexpected TPU type format (no hyphen): ", id)
                            <=> "-" \notin Range(id)
                      /\ OutsideValidatedZones(nodes[i], "TPU")
                            <=> ZoneWarnings(nodes[i], "TPU") # {}
                      /\ \A k \in ZoneWarnings(nodes[i], "TPU") :
                            log[k] = ZoneWarningStart(nodes[i], "TPU") \o ModelKey("TPU", id)
        /\ ~ZoneWarningLogged => result.value.success

\* a TPU identifier without a hyphen in a validated zone of its model: the
\* format warning is logged and the check succeeds
C14_Witness ==
    /\ ZoneChecked
    /\ \E i \in NodeIndices :
          /\ AcceleratorId(nodes[i], "TPU") = <<"v6e">>
          /\ LabelText(nodes[i], ZONE_LABEL) = US_CENTRAL1_B
    /\ FormatWarned("Unexpected TPU type format (no hyphen): ", <<"v6e">>)
    /\ result.value.success

----------------------------------------------------------------------------
(* Properties of the report *)

ReportedSuites == IF suite = "all" THEN {"cluster", "operators"} ELSE {suite}

\* the checks of the reported suites whose stored result is a failure
FailedChecks ==
    {i \in 1..Len(TEST_REGISTRY) :
        /\ TEST_REGISTRY[i].suite \in ReportedSuites
        /\ tests[TEST_REGISTRY[i].name] = FALSE}

Reported == result.op = "report" /\ pc \in {"reported", "exited"}

(* C15: a failed check tagged optional does not count toward the verdict:    *)
(* the value report returns, which is the exit status of the process, is the *)
(* number of failed non-optional checks of the reported suites, and so is 0  *)
(* whenever only optional checks failed.                                     *)
C15_OptionalNotCounted ==
    Reported =>
        /\ result.value = Cardinality({i \in FailedChecks : ~TEST_REGISTRY[i].optional})
        /\ (\A i \in FailedChecks : TEST_REGISTRY[i].optional) => result.value = 0
        /\ pc = "exited" => exit_status = result.value

\* an optional check failed, every other reported check passed, and the
\* process exited with status 0
C15_Witness ==
    /\ Reported
    /\ pc = "exited"
    /\ FailedChecks # {}
    /\ \A i \in FailedChecks : TEST_REGISTRY[i].optional
    /\ exit_status = 0

----------------------------------------------------------------------------
(* Properties over reorderings of the node list *)

GenericValidators == {"validate_instance_types", "validate_accelerators"}

\* the nodes of ns whose name the message holds
NamedIn(message, ns) == {ns[i].name : i \in {k \in 1..Len(ns) : ns[k].name \in Range(message)}}

\* ms holds the nodes of ns, each as often, in some order
IsReordering(ns, ms) ==
    /\ Len(ns) = Len(ms)
    /\ \A i \in 1..Len(ns) :
          Cardinality({k \in 1..Len(ns) : ns[k] = ns[i]})
              = Cardinality({k \in 1..Len(ms) : ms[k] = ns[i]})

(* C16: instance-type and accelerator validation are invariant under        *)
(* permutation of the node list: a validation of a snapshot and the same     *)
(* validation of a reordering of it end alike, with the same success flag    *)
(* and the same set of matched node names.                                   *)
C16_PermutationInvariant ==
    [][(/\ result.op \in GenericValidators
        /\ result'.op = result.op
        /\ provider_config' = provider_config
        /\ IsReordering(nodes, nodes')) =>
            /\ result'.status = result.status
            /\ result.status = "returned" =>
                  /\ result'.value.success = result.value.success
                  /\ NamedIn(result'.value.message, nodes')
                        = NamedIn(result.value.message, nodes)]_vars

\* the validation of a list in which the nodes are no longer in their
\* original order, with one node matched and one not
C16_Witness ==
    /\ result.op \in GenericValidators
    /\ result.status = "returned"
    /\ Len(nodes) >= 2
    /\ nodes[1].name # NodeNames[1]
    /\ NamedIn(result.value.message, nodes) # {}
    /\ NamedIn(result.value.message, nodes) # {nodes[i].name : i \in 1..Len(nodes)}

----------------------------------------------------------------------------
(* Properties of the node-listing queries *)

ProviderAcceleratorValidators ==
    {"AzureProvider.validate_accelerators", "GCPProvider.validate_accelerators"}

(* C17: every validator invocation performs exactly one node-listing query  *)
(* and iterates that single result, and a failed query is not followed by    *)
(* another: one accelerator validation evaluates all accelerator classes,    *)
(* GPU and TPU, against the same node list.                                  *)
C17_OneQueryPerValidation ==
    result.op \in ProviderAcceleratorValidators => listCalls = 1

----------------------------------------------------------------------------
(* Properties of the accelerator message *)

\* the accelerator classes a validator checks, in declaration order
ClassesOf(op) ==
    IF op = "validate_accelerators" THEN provider_config.accelerators
    ELSE GCPConfig.accelerators

\* the class names of the summary entries of a message, in message order
RECURSIVE SummaryClasses(_)
SummaryClasses(message) ==
    IF Len(message) < 2 THEN <<>>
    ELSE IF message[2] = " available on: "
    THEN <<message[1]>> \o SummaryClasses(Tail(message))
    ELSE SummaryClasses(Tail(message))

\* the names of the classes with a qualifying node, in declaration order
RECURSIVE QualifyingClasses(_)
QualifyingClasses(accels) ==
    IF accels = <<>> THEN <<>>
    ELSE (IF \E i \in NodeIndices : Qualifies(nodes[i], accels[1])
          THEN accels[1].name ELSE <<>>)
         \o QualifyingClasses(Tail(accels))

AcceleratorsReported ==
    /\ result.op \in {"validate_accelerators", "GCPProvider.validate_accelerators"}
    /\ result.status = "returned"
    /\ ~result.listFailed

(* C18: on success the accelerator message holds exactly one summary entry  *)
(* per accelerator class that has a qualifying node, in declaration order,   *)
(* and none for a class without one; on failure the message names every      *)
(* accelerator class that was checked.                                       *)
C18_OneSummaryPerClass ==
    AcceleratorsReported =>
        /\ result.value.success =>
              SummaryClasses(result.value.message) = QualifyingClasses(ClassesOf(result.op))
        /\ ~result.value.success =>
              \A a \in 1..Len(ClassesOf(result.op)) :
                  \A k \in 1..Len(ClassesOf(result.op)[a].name) :
                      ClassesOf(result.op)[a].name[k] \in Range(result.value.message)

\* both classes have a qualifying node, the TPU node comes first in the list,
\* and the message holds the GPU summary before the TPU summary
C18_Witness ==
    /\ AcceleratorsReported
    /\ result.op = "validate_accelerators"
    /\ provider_config = GCPConfig
    /\ Len(nodes) = 2
    /\ Qualifies(nodes[1], GCPConfig.accelerators[2])
    /\ Qualifies(nodes[2], GCPConfig.accelerators[1])
    /\ SummaryClasses(result.value.message) = <<"GPU", "TPU">>

----------------------------------------------------------------------------
(* Properties of extra labels *)

ExtraLabelReaders == {"validate_accelerators", "GCPProvider._check_tpu"}

\* the extra label keys of the configured accelerator classes
ExtraKeys ==
    UNION {Range(provider_config.accelerators[a].extra_labels) :
           a \in 1..Len(provider_config.accelerators)}

\* the two nodes are alike but for the values of extra labels
SameButExtras(n, m) ==
    /\ n.name = m.name
    /\ n.allocatable = m.allocatable
    /\ (n.labels = NoneValue) <=> (m.labels = NoneValue)
    /\ n.labels # NoneValue =>
          /\ DOMAIN n.labels \ ExtraKeys = DOMAIN m.labels \ ExtraKeys
          /\ \A k \in DOMAIN n.labels \ ExtraKeys : n.labels[k] = m.labels[k]

\* the part of the message about the node: from its name up to the next
\* node name or class separator
EntryOf(message, name) ==
    LET p == CHOOSE k \in 1..Len(message) : message[k] = name
        stops == {k \in (p + 1)..Len(message) :
                     message[k] \in Range(NodeNames) \cup {" | "}}
    IN  SubSeq(message, p,
               IF stops = {} THEN Len(message)
               ELSE (CHOOSE k \in stops : \A j \in stops : k <= j) - 1)

(* C19: extra labels never affect pass/fail: two snapshots that differ only *)
(* in the values of extra labels yield the same accelerator success flag;    *)
(* and each non-empty extra-label value on a qualifying node appears in the  *)
(* diagnostic entry of that node.                                            *)
C19_ExtraLabelsDiagnosticOnly ==
    /\ [][(/\ result.op \in ExtraLabelReaders
           /\ result'.op = result.op
           /\ ~result.listFailed /\ ~result'.listFailed
           /\ Len(nodes') = Len(nodes)
           /\ \A i \in NodeIndices : SameButExtras(nodes[i], nodes'[i])) =>
               /\ result'.status = result.status
               /\ result.status = "returned" =>
                     result'.value.success = result.value.success]_vars
    /\ []((/\ result.op \in ExtraLabelReaders
           /\ result.status = "returned"
           /\ ~result.listFailed) =>
               \A a \in 1..Len(provider_config.accelerators) :
                   \A i \in NodeIndices :
                       \A key \in Range(provider_config.accelerators[a].extra_labels) :
                           (/\ Qualifies(nodes[i], provider_config.accelerators[a])
                            /\ LabelSet(nodes[i], key)) =>
                               /\ nodes[i].name \in Range(result.value.message)
                               /\ Contains(EntryOf(result.value.message, nodes[i].name),
                                           nodes[i].labels[key]))

\* a success over a list with a qualifying TPU node that carries a topology
\* value, shown in its entry, and a qualifying node without one
C19_Witness ==
    /\ result.op \in ExtraLabelReaders
    /\ result.status = "returned"
    /\ result.value.success
    /\ \E i \in NodeIndices :
          /\ Qualifies(nodes[i], GCPConfig.accelerators[2])
          /\ LabelText(nodes[i], GKE_TPU_TOPOLOGY_LABEL) = <<"2x2">>
          /\ Contains(EntryOf(result.value.message, nodes[i].name), <<"2x2">>)
    /\ \E i \in NodeIndices :
          /\ Qualifies(nodes[i], GCPConfig.accelerators[2])
          /\ LabelText(nodes[i], GKE_TPU_TOPOLOGY_LABEL) = <<>>

----------------------------------------------------------------------------
(* Properties of the validation results *)

ZoneValidators == {"GCPProvider.validate_zone_compatibility"}

Validators == InstanceValidators \cup AcceleratorValidators \cup ZoneValidators

(* C20: every ValidationResult returned by a validator (instance-type,     *)
(* accelerator or zone) has a non-empty message, on success and on failure, *)
(* for every snapshot, the empty one included.                              *)
C20_MessageNonEmpty ==
    (result.op \in Validators /\ result.status = "returned") =>
        /\ result.value.success \in BOOLEAN
        /\ result.value.message # <<>>
        /\ \A k \in 1..Len(result.value.message) : result.value.message[k] # ""

\* the zone check passed over the empty snapshot and says so
C20_Witness ==
    /\ nodes = <<>>
    /\ result.op \in ZoneValidators
    /\ result.status = "returned"
    /\ result.value.success
    /\ result.value.message # <<>>

----------------------------------------------------------------------------
(* Frame of the detectors and validators *)

(* C21: no detector or validator mutates the snapshot: over any sequence of  *)
(* detect, instance-type, accelerator and zone checks every node's labels    *)
(* and allocatable maps stay as they were, and so do the provider            *)
(* configuration and the registry; the zone table is the constant ZONE_DATA. *)
C21_SnapshotUntouched ==
    [][/\ nodes' = nodes
       /\ provider_config' = provider_config
       /\ registry' = registry
       /\ GCPProvider_get_zone_data = ZONE_DATA]_vars

\* a check has returned over a list with a node whose labels and allocatable
\* are None, and the node still has them so
C21_Witness ==
    /\ result.op \in Validators \cup Detectors
    /\ result.status = "returned"
    /\ \E i \in NodeIndices :
          nodes[i].labels = NoneValue /\ nodes[i].allocatable = NoneValue

----------------------------------------------------------------------------
(* Zone compatibility of a provider without a zone table *)

(* C22: a provider that publishes no zone table reports unconditional        *)
(* success ("not applicable") for the zone-compatibility check, for every    *)
(* snapshot.                                                                 *)
C22_NoTableNotApplicable ==
    (/\ result.op = "AzureProvider.validate_zone_compatibility"
     /\ DOMAIN BaseCloudProvider_get_zone_data = {}) =>
        /\ result.status = "returned"
        /\ result.value.success

----------------------------------------------------------------------------
(* The data-driven validators against the AzureProvider class *)

\* the two outcomes raise alike, or return the same success flag
SameVerdict(r, status, value) ==
    /\ r.status = status
    /\ status = "returned" => r.value.success = value.success

(* C23: the data-driven validators agree with the class-based Azure          *)
(* provider: for every snapshot, validate_instance_types and                 *)
(* validate_accelerators applied to the 'azure' configuration return the     *)
(* same success flag, and raise in the same cases, as                        *)
(* AzureProvider.validate_instance_types and                                 *)
(* AzureProvider.validate_accelerators over the same node list, also for     *)
(* nodes whose presence label is set to an empty string.                     *)
C23_GenericAgreesWithAzure ==
    /\ (result.op = "AzureProvider.validate_instance_types" /\ ~result.listFailed) =>
          SameVerdict(validate_instance_types(nodes, AzureConfig),
                      result.status, result.value)
    /\ (result.op = "AzureProvider.validate_accelerators" /\ ~result.listFailed) =>
          SameVerdict(validate_accelerators(nodes, AzureConfig),
                      result.status, result.value)

----------------------------------------------------------------------------
(* Properties of run() *)

\* the names of the registry's checks that belong to the suite selection,
\* in registry order
SelectedChecks(s) ==
    LET Selected(t) == s = "all" \/ t.suite = s
        picked == SelectSeq(TEST_REGISTRY, Selected)
    IN  [i \in 1..Len(picked) |-> picked[i].name]

IsPrefix(p, q) == Len(p) <= Len(q) /\ SubSeq(q, 1, Len(p)) = p

SuiteOfCheck(name) ==
    TEST_REGISTRY[CHOOSE i \in 1..Len(TEST_REGISTRY) : TEST_REGISTRY[i].name = name].suite

(* C25: run executes every check of each selected suite exactly once, in     *)
(* registry order, with the 'cluster' suite entirely before the 'operators'  *)
(* suite when the suite is 'all'; a check returning false does not stop      *)
(* later checks from running; and run always terminates once each check      *)
(* function returns.                                                         *)
C25_RunWalksRegistry ==
    /\ [](tests # NoTests => IsPrefix(calls, SelectedChecks(suite)))
    /\ [](pc = "ran" => calls = SelectedChecks(suite))
    /\ [](\A i \in 1..Len(calls) : \A j \in 1..Len(calls) :
            (i < j /\ SuiteOfCheck(calls[i]) = "operators") =>
                SuiteOfCheck(calls[j]) = "operators")
    /\ [](\A i \in 1..Len(calls) : \A j \in 1..Len(calls) :
            calls[i] = calls[j] => i = j)
    /\ (pc = "running") ~> (pc \in {"ran", "exited"})

\* run('all') has returned after ten checks, the first of which failed and a
\* later one passed
C25_Witness ==
    /\ pc = "ran"
    /\ suite = "all"
    /\ Len(calls) = Len(TEST_REGISTRY)
    /\ ~tests["instance_type"]
    /\ tests["operator_kserve"]

----------------------------------------------------------------------------
(* Properties of the stored results, run() and report() *)

\* the last call was a report
Reporting == result.op = "report" /\ result.status = "returned"

\* the status report printed for the check
PrintedStatus(name) ==
    LET printed == result.value.printed
    IN  printed[CHOOSE k \in 1..Len(printed) : printed[k].name = name].status

PrintedNames == {result.value.printed[k].name : k \in 1..Len(result.value.printed)}

\* the checks the most recent run was to execute, and those of them whose
\* function it executed and saw return
CoveredByLastRun == Range(calls) \cup Range(queue)

ReturnedInLastRun == Range(calls) \ Range(queue)

(* C24: results are fail-closed: every check starts with result False, and   *)
(* in any sequence of run and report calls a check is reported PASS only if  *)
(* the most recent run that covered its suite executed its function and the  *)
(* function returned a truthy value; a check that was never run is reported  *)
(* FAIL, or SKIP if optional.                                                *)
C24_FailClosed ==
    /\ []((pc = "constructed" /\ calls = <<>> /\ queue = <<>>) =>
              \A n \in TestNames : ~tests[n])
    /\ []((Reporting /\ pc # "running") =>
              \A n \in PrintedNames :
                  /\ PrintedStatus(n) = "PASS" => tests[n]
                  /\ (PrintedStatus(n) = "PASS" /\ n \in CoveredByLastRun) =>
                        n \in ReturnedInLastRun)
    /\ [][\A n \in TestNames :
             (tests' # NoTests /\ tests # NoTests /\ tests'[n] /\ ~tests[n]) =>
                 /\ calls' = Append(calls, n)
                 /\ result'.status = "returned"
                 /\ result'.value = TRUE]_vars

(* C26: report classifies every check of the reported suites into exactly    *)
(* one of PASS, SKIP (failed and optional) or FAIL (failed and mandatory):   *)
(* passed + failed + optional-failed equals the number of checks in the      *)
(* reported suites, and report does not change any check's stored result.    *)
C26_ReportClassifies ==
    /\ [](Reporting =>
            LET v == result.value
                expected == SelectedChecks(v.suite)
                Count(status) ==
                    Cardinality({k \in 1..Len(v.printed) : v.printed[k].status = status})
            IN  /\ Len(v.printed) = Len(expected)
                /\ \A k \in 1..Len(expected) :
                      LET t == TEST_REGISTRY[CHOOSE i \in 1..Len(TEST_REGISTRY) :
                                                TEST_REGISTRY[i].name = expected[k]]
                      IN  /\ v.printed[k].name = expected[k]
                          /\ v.printed[k].status \in {"PASS", "SKIP", "FAIL"}
                          /\ v.printed[k].status = "PASS" <=> tests[t.name]
                          /\ v.printed[k].status = "SKIP" <=>
                                (~tests[t.name] /\ t.optional)
                          /\ v.printed[k].status = "FAIL" <=>
                                (~tests[t.name] /\ ~t.optional)
                /\ v.passed_counter = Count("PASS")
                /\ v.optional_failed_counter = Count("SKIP")
                /\ v.failed_counter = Count("FAIL")
                /\ v.passed_counter + v.failed_counter + v.optional_failed_counter
                      = Len(expected))
    /\ [][result'.op = "report" => tests' = tests]_vars

\* a report on all suites after a run in which the optional lws checks and a
\* mandatory check failed while others passed
C26_Witness ==
    /\ Reporting
    /\ result.value.suite = "all"
    /\ Len(calls) = Len(TEST_REGISTRY)
    /\ result.value.optional_failed_counter = 2
    /\ result.value.failed_counter >= 1
    /\ result.value.passed_counter >= 1

\* the step executed a CRD-presence check
CrdCheckStep ==
    /\ Len(calls') = Len(calls) + 1
    /\ calls'[Len(calls')] \in CrdChecks

(* C27: with caching enabled, across any sequence of CRD-presence checks in  *)
(* one run the cluster's CRD list is queried at most once: after the first   *)
(* successful query every later lookup returns the cached set without        *)
(* querying, so all CRD checks of a run are evaluated against the same set   *)
(* of names; and a query failure leaves the cache unset.                     *)
C27_CrdListCached ==
    /\ [][CrdCheckStep =>
            /\ listCalls' <= 1
            /\ crds_cache # NoCache =>
                  /\ listCalls' = 0
                  /\ crds_cache' = crds_cache
                  /\ result'.status = "returned"
            /\ listCalls' = 1 =>
                  /\ \A k \in 1..Len(calls) : calls[k] \notin CrdChecks
                  /\ result'.status = "returned" => crds_cache' = crds
                  /\ result'.status = "raised" => crds_cache' = NoCache]_vars
    /\ [](\A k \in 1..Len(calls) :
            (calls[k] \in CrdChecks /\ calls[k] \in ReturnedInLastRun) =>
                /\ crds_cache # NoCache
                /\ tests[calls[k]] <=> (REQUIRED_CRDS[calls[k]] \subseteq crds_cache))

\* all four CRD checks of a run have returned, the first one queried, and the
\* cluster's CRDs have changed since: the checks went by the cached set
C27_Witness ==
    /\ pc = "ran"
    /\ CrdChecks \subseteq ReturnedInLastRun
    /\ crds_cache # NoCache
    /\ crds # crds_cache
    /\ \E n \in CrdChecks : tests[n] # (REQUIRED_CRDS[n] \subseteq crds)

====
